---- MODULE Spec2Model ----
(***************************************************************************)
(* Swapchain Override addon: the Swapchain Manager (pending table, record  *)
(* table, proxy resources, render-target redirection, fullscreen           *)
(* arbitration) as a state machine.  Every handler is one action; the      *)
(* device calls a handler issues are kept, in order, in last.log.          *)
(***************************************************************************)
EXTENDS Integers, Sequences, FiniteSets, TLC

(***************************************************************************)
(* Bounds of the model.                                                    *)
(***************************************************************************)
MaxBackBuffers == 2
MaxRtvCount == 2
MaxViewports == 2
MaxInstances == 3
MaxMonitors == 3
MaxThreads == 2

(***************************************************************************)
(* Program constants.                                                      *)
(***************************************************************************)
FallbackWidth == 1920
FallbackHeight == 1080
DefaultForceWidth == 3840
DefaultForceHeight == 2160
DXGI_SWAP_CHAIN_FLAG_ALLOW_MODE_SWITCH == 2

VARIABLES config, pending_swapchains_, swapchain_data_, live, last

\* WindowHooks (instance counter, installed flag, the hook handles that are
\* attached), DllMain (its position, what is registered with the host, the
\* steps it has made) and the host's configuration store
VARIABLES addon_instance_count_, hooks_installed_, hook_handles,
          dll_pc, host_registered, dll_log, config_store

\* SwapchainManager's two mutexes (the thread that owns each, 0 for none) and,
\* per thread, the lock operations its current call has still to make
VARIABLES mutex_owner, thread_script

\* per window, the size the application asked for in its latest create_swapchain
VARIABLE requested

\* DebugLogger's sequence counter, and the values get_next_sequence has
\* handed out so far, in the order of its increments
VARIABLES sequence_counter_, returned

addonVars == <<addon_instance_count_, hooks_installed_, hook_handles,
               dll_pc, host_registered, dll_log, config_store>>

vars == <<config, pending_swapchains_, swapchain_data_, live, last, addonVars,
          mutex_owner, thread_script, requested, sequence_counter_, returned>>

(***************************************************************************)
(* The host's objects.  A swapchain has a native handle (its name here), a *)
(* window, a device and a number of back buffers; one swapchain has no     *)
(* window.  Handles are integers; 0 is the null handle.                    *)
(***************************************************************************)
NullHandle == 0
Windows == {1, 2}
Devices == {1, 2}
WindowedSwapchains == {1, 2}
HeadlessSwapchain == 3
Swapchains == WindowedSwapchains \cup {HeadlessSwapchain}

HwndOf(s) == IF s = HeadlessSwapchain THEN NullHandle ELSE s
DeviceOf(s) == 1
BackBufferCount(s) == IF s = 1 THEN MaxBackBuffers ELSE 1

\* swapchain_ptr->get_back_buffer(i), i zero-based
BackBuffer(s, i) == 1000 + 10 * s + i
\* the application's render-target view of a resource
AppView(r) == 100000 + r
\* device_ptr->get_resource_from_view(view)
ResourceFromView(v) == IF v >= AppView(0) THEN v - AppView(0) ELSE NullHandle

(***************************************************************************)
(* Configuration (read-only for the Swapchain Manager).                    *)
(***************************************************************************)

ConfigStates ==
    [force_width_ : {0, DefaultForceWidth},
     force_height_ : {0, DefaultForceHeight},
     fullscreen_mode_ : {"Unchanged", "Borderless", "Exclusive"},
     block_fullscreen_changes_ : BOOLEAN,
     scaling_filter_ : {"min_mag_mip_linear"},
     target_monitor_ : {0}]

\* mutant: a zero size does not disable the override
is_override_enabled_always(c) == c.force_width_ >= 0 /\ c.force_height_ >= 0

is_override_enabled(c) == c.force_width_ # 0 /\ c.force_height_ # 0
is_exclusive_fullscreen_enabled(c) == c.fullscreen_mode_ = "Exclusive"
is_borderless_fullscreen_enabled(c) == c.fullscreen_mode_ = "Borderless"

(***************************************************************************)
(* Maps (std::unordered_map) as functions on the set of present keys.      *)
(***************************************************************************)
EmptyMap == [k \in {} |-> 0]
MapPut(m, k, v) == [x \in DOMAIN m \cup {k} |-> IF x = k THEN v ELSE m[x]]
MapErase(m, k) == [x \in DOMAIN m \ {k} |-> m[x]]

(***************************************************************************)
(* What a handler call leaves behind for inspection: its arguments, its    *)
(* result and the device / command-list calls it issued.                   *)
(***************************************************************************)
NoDesc == [width |-> 0, height |-> 0, fullscreen_state |-> FALSE, present_flags |-> 0]

NoCall == [op |-> "none", sc |-> 0, hwnd |-> 0, dev |-> 0, flag |-> FALSE,
           ret |-> FALSE, desc_in |-> NoDesc, desc_out |-> NoDesc,
           rtvs_in |-> <<>>, rtvs_out |-> <<>>, dsv_in |-> 0, dsv_out |-> 0,
           rebind |-> FALSE, hit |-> FALSE, tracked |-> FALSE, api |-> "",
           log |-> <<>>, vps_in |-> <<>>, vps_out |-> <<>>,
           rects_in |-> <<>>, rects_out |-> <<>>,
           monitors |-> <<>>, monitor |-> 0, warned |-> FALSE, index |-> 0,
           cmd_ok |-> FALSE, rtv_ok |-> FALSE,
           args_in |-> <<>>, args_out |-> <<>>, forwarded |-> FALSE, orig |-> FALSE]

\* the host is not inside a callback
Idle == last.op = "none"

\* the callback returns: the host takes its result and goes on
HostReturn ==
    /\ ~Idle
    /\ last' = NoCall
    /\ UNCHANGED <<config, pending_swapchains_, swapchain_data_, live, addonVars,
                   mutex_owner, thread_script, requested, sequence_counter_, returned>>

(***************************************************************************)
(* SwapchainManager::store_pending_info / retrieve_pending_info            *)
(***************************************************************************)
\* mutant: an entry the window already has is kept
store_pending_info_first(pend, hwnd, width, height) ==
    IF hwnd \in DOMAIN pend THEN pend
    ELSE MapPut(pend, hwnd, [original_width |-> width, original_height |-> height])

store_pending_info(pend, hwnd, width, height) ==
    MapPut(pend, hwnd, [original_width |-> width, original_height |-> height])

\* mutant: the entry is read but not erased
retrieve_pending_info_keep(pend, hwnd) ==
    IF hwnd \in DOMAIN pend
    THEN [found |-> TRUE, width |-> pend[hwnd].original_width,
          height |-> pend[hwnd].original_height, pend |-> pend]
    ELSE [found |-> FALSE, width |-> 0, height |-> 0, pend |-> pend]

retrieve_pending_info(pend, hwnd) ==
    IF hwnd \in DOMAIN pend
    THEN [found |-> TRUE, width |-> pend[hwnd].original_width,
          height |-> pend[hwnd].original_height, pend |-> MapErase(pend, hwnd)]
    ELSE [found |-> FALSE, width |-> 0, height |-> 0, pend |-> pend]

(***************************************************************************)
(* SwapchainManager::handle_create_swapchain                               *)
(***************************************************************************)
HasModeSwitch(flags) == (flags \div DXGI_SWAP_CHAIN_FLAG_ALLOW_MODE_SWITCH) % 2 = 1

\* mutant: the requested size is not compared with the forced size
create_resolution_uncompared(c, pend, desc, hwnd) ==
    IF is_override_enabled(c)
    THEN [desc |-> [desc EXCEPT !.width = c.force_width_, !.height = c.force_height_],
          pend |-> IF hwnd # NullHandle
                   THEN store_pending_info(pend, hwnd, desc.width, desc.height)
                   ELSE pend,
          modified |-> TRUE]
    ELSE [desc |-> desc, pend |-> pend, modified |-> FALSE]

\* the resolution part: the description and the pending table afterwards
create_resolution(c, pend, desc, hwnd) ==
    IF is_override_enabled(c)
       /\ (desc.width # c.force_width_ \/ desc.height # c.force_height_)
    THEN [desc |-> [desc EXCEPT !.width = c.force_width_, !.height = c.force_height_],
          pend |-> IF hwnd # NullHandle
                   THEN store_pending_info(pend, hwnd, desc.width, desc.height)
                   ELSE pend,
          modified |-> TRUE]
    ELSE [desc |-> desc, pend |-> pend, modified |-> FALSE]

\* mutant: clearing the mode-switch bit under Borderless is not reported
create_fullscreen_unreported(c, desc) ==
    IF is_exclusive_fullscreen_enabled(c)
    THEN IF ~HasModeSwitch(desc.present_flags)
         THEN [desc |-> [desc EXCEPT !.present_flags = @ + DXGI_SWAP_CHAIN_FLAG_ALLOW_MODE_SWITCH],
               modified |-> TRUE]
         ELSE [desc |-> desc, modified |-> FALSE]
    ELSE IF is_borderless_fullscreen_enabled(c)
    THEN [desc |-> [desc EXCEPT !.fullscreen_state = FALSE,
                                !.present_flags = IF HasModeSwitch(@)
                                                  THEN @ - DXGI_SWAP_CHAIN_FLAG_ALLOW_MODE_SWITCH
                                                  ELSE @],
          modified |-> desc.fullscreen_state]
    ELSE [desc |-> desc, modified |-> FALSE]

\* mutant: Exclusive forces the fullscreen flag at creation
create_fullscreen_forced(c, desc) ==
    IF is_exclusive_fullscreen_enabled(c)
    THEN [desc |-> [desc EXCEPT !.fullscreen_state = TRUE,
                                !.present_flags = IF HasModeSwitch(@) THEN @
                                                  ELSE @ + DXGI_SWAP_CHAIN_FLAG_ALLOW_MODE_SWITCH],
          modified |-> ~desc.fullscreen_state \/ ~HasModeSwitch(desc.present_flags)]
    ELSE IF is_borderless_fullscreen_enabled(c)
    THEN [desc |-> [desc EXCEPT !.fullscreen_state = FALSE,
                                !.present_flags = IF HasModeSwitch(@)
                                                  THEN @ - DXGI_SWAP_CHAIN_FLAG_ALLOW_MODE_SWITCH
                                                  ELSE @],
          modified |-> desc.fullscreen_state \/ HasModeSwitch(desc.present_flags)]
    ELSE [desc |-> desc, modified |-> FALSE]

\* the fullscreen part
create_fullscreen(c, desc) ==
    IF is_exclusive_fullscreen_enabled(c)
    THEN IF ~HasModeSwitch(desc.present_flags)
         THEN [desc |-> [desc EXCEPT !.present_flags = @ + DXGI_SWAP_CHAIN_FLAG_ALLOW_MODE_SWITCH],
               modified |-> TRUE]
         ELSE [desc |-> desc, modified |-> FALSE]
    ELSE IF is_borderless_fullscreen_enabled(c)
    THEN LET d1 == [desc EXCEPT !.fullscreen_state = FALSE]
             d2 == IF HasModeSwitch(d1.present_flags)
                   THEN [d1 EXCEPT !.present_flags = @ - DXGI_SWAP_CHAIN_FLAG_ALLOW_MODE_SWITCH]
                   ELSE d1
         IN [desc |-> d2,
             modified |-> desc.fullscreen_state \/ HasModeSwitch(desc.present_flags)]
    ELSE [desc |-> desc, modified |-> FALSE]

handle_create_swapchain(c, pend, desc, hwnd) ==
    LET r == create_resolution(c, pend, desc, hwnd)
        f == create_fullscreen(c, r.desc)
    IN [desc |-> f.desc, pend |-> r.pend, ret |-> r.modified \/ f.modified]

(***************************************************************************)
(* The device: the set of live objects the addon created, and the calls    *)
(* made in this handler so far.  A call is <<function, handle, a, b>>; a   *)
(* failed creation has handle 0.  A new object takes the smallest handle   *)
(* no live object has (handles of destroyed objects are reused, as an      *)
(* allocator reuses addresses).                                            *)
(***************************************************************************)
RECURSIVE NextFree(_, _)
NextFree(used, k) == IF k \notin used THEN k ELSE NextFree(used, k + 1)

StartCtx(liveSet) == [live |-> liveSet, log |-> <<>>]

DeviceCreate(ctx, fn, ok, a, b) ==
    IF ok
    THEN LET h == NextFree(ctx.live, 1)
         IN [ctx |-> [ctx EXCEPT !.live = @ \cup {h}, !.log = Append(@, <<fn, h, a, b>>)],
             handle |-> h]
    ELSE [ctx |-> [ctx EXCEPT !.log = Append(@, <<fn, NullHandle, a, b>>)],
          handle |-> NullHandle]

DeviceDestroy(ctx, fn, h) ==
    [ctx EXCEPT !.live = @ \ {h}, !.log = Append(@, <<fn, h, 0, 0>>)]

(***************************************************************************)
(* SwapchainData and SwapchainData::cleanup                                *)
(***************************************************************************)
NewSwapchainData ==
    [original_width |-> 0, original_height |-> 0,
     actual_width |-> 0, actual_height |-> 0,
     override_active |-> FALSE,
     proxy_textures |-> <<>>, proxy_rtvs |-> <<>>, proxy_srvs |-> <<>>,
     actual_back_buffers |-> <<>>,
     copy_pipeline |-> NullHandle, copy_pipeline_layout |-> NullHandle,
     copy_sampler |-> NullHandle, device_ptr |-> NullHandle]

Tagged(fn, handles) == [i \in 1..Len(handles) |-> <<fn, handles[i]>>]
NonNull(calls) == SelectSeq(calls, LAMBDA c : c[2] # NullHandle)

\* mutant: the shader-resource views are forgotten
cleanup_calls_no_srvs(data) ==
    NonNull(<<<<"destroy_pipeline", data.copy_pipeline>>,
              <<"destroy_pipeline_layout", data.copy_pipeline_layout>>,
              <<"destroy_sampler", data.copy_sampler>>>>
            \o Tagged("destroy_resource_view", data.proxy_rtvs)
            \o Tagged("destroy_resource", data.proxy_textures))

\* the destroy calls of cleanup(), in the order the code makes them
cleanup_calls(data) ==
    NonNull(<<<<"destroy_pipeline", data.copy_pipeline>>,
              <<"destroy_pipeline_layout", data.copy_pipeline_layout>>,
              <<"destroy_sampler", data.copy_sampler>>>>
            \o Tagged("destroy_resource_view", data.proxy_rtvs)
            \o Tagged("destroy_resource_view", data.proxy_srvs)
            \o Tagged("destroy_resource", data.proxy_textures))

RECURSIVE DestroyAll(_, _)
DestroyAll(ctx, calls) ==
    IF calls = <<>> THEN ctx
    ELSE DestroyAll(DeviceDestroy(ctx, Head(calls)[1], Head(calls)[2]), Tail(calls))

\* mutant: the pipeline, layout and sampler handles are not zeroed
cleanup_keeps_pipeline(data, ctx) ==
    [data |-> [data EXCEPT !.proxy_rtvs = <<>>, !.proxy_srvs = <<>>,
                           !.proxy_textures = <<>>, !.actual_back_buffers = <<>>],
     ctx |-> IF data.device_ptr # NullHandle
             THEN DestroyAll(ctx, cleanup_calls(data))
             ELSE ctx]

\* mutant: the back-buffer handles are kept
cleanup_keeps_back_buffers(data, ctx) ==
    [data |-> [data EXCEPT !.copy_pipeline = NullHandle,
                           !.copy_pipeline_layout = NullHandle,
                           !.copy_sampler = NullHandle,
                           !.proxy_rtvs = <<>>, !.proxy_srvs = <<>>,
                           !.proxy_textures = <<>>],
     ctx |-> IF data.device_ptr # NullHandle
             THEN DestroyAll(ctx, cleanup_calls(data))
             ELSE ctx]

cleanup(data, ctx) ==
    [data |-> [data EXCEPT !.copy_pipeline = NullHandle,
                           !.copy_pipeline_layout = NullHandle,
                           !.copy_sampler = NullHandle,
                           !.proxy_rtvs = <<>>, !.proxy_srvs = <<>>,
                           !.proxy_textures = <<>>, !.actual_back_buffers = <<>>],
     ctx |-> IF data.device_ptr # NullHandle
             THEN DestroyAll(ctx, cleanup_calls(data))
             ELSE ctx]

\* every handle a record holds
HandlesOf(data) ==
    ({data.copy_pipeline, data.copy_pipeline_layout, data.copy_sampler}
     \cup {data.proxy_textures[i] : i \in DOMAIN data.proxy_textures}
     \cup {data.proxy_rtvs[i] : i \in DOMAIN data.proxy_rtvs}
     \cup {data.proxy_srvs[i] : i \in DOMAIN data.proxy_srvs}) \ {NullHandle}

(***************************************************************************)
(* SwapchainManager::create_proxy_resources.  n counts the creation calls  *)
(* made so far in this initialize_swapchain; the call numbered fail (if    *)
(* any) is the one the device refuses.                                     *)
(***************************************************************************)
Zeros(n) == [i \in 1..n |-> NullHandle]

RECURSIVE texture_loop(_, _, _, _, _, _)
texture_loop(data, ctx, i, bb, n, fail) ==
    IF i > bb THEN [ok |-> TRUE, data |-> data, ctx |-> ctx, n |-> n]
    ELSE LET t == DeviceCreate(ctx, "create_resource", n + 1 # fail,
                               data.original_width, data.original_height)
             d1 == [data EXCEPT !.proxy_textures[i] = t.handle]
         IN IF t.handle = NullHandle
            THEN [ok |-> FALSE, data |-> d1, ctx |-> t.ctx, n |-> n + 1]
            ELSE LET v == DeviceCreate(t.ctx, "create_rtv", n + 2 # fail, t.handle, 0)
                     d2 == [d1 EXCEPT !.proxy_rtvs[i] = v.handle]
                 IN IF v.handle = NullHandle
                    THEN [ok |-> FALSE, data |-> d2, ctx |-> v.ctx, n |-> n + 2]
                    ELSE texture_loop(d2, v.ctx, i + 1, bb, n + 2, fail)

RECURSIVE srv_loop(_, _, _, _, _, _)
srv_loop(data, ctx, i, bb, n, fail) ==
    IF i > bb THEN [ok |-> TRUE, data |-> data, ctx |-> ctx, n |-> n]
    ELSE LET v == DeviceCreate(ctx, "create_srv", n + 1 # fail, data.proxy_textures[i], 0)
             d1 == [data EXCEPT !.proxy_srvs[i] = v.handle]
         IN IF v.handle = NullHandle
            THEN [ok |-> FALSE, data |-> d1, ctx |-> v.ctx, n |-> n + 1]
            ELSE srv_loop(d1, v.ctx, i + 1, bb, n + 1, fail)

\* the SRV loop, entered when the texture loop succeeded
create_proxy_srvs(r1, s, fail) ==
    IF ~r1.ok THEN r1
    ELSE srv_loop([r1.data EXCEPT !.proxy_srvs = Zeros(BackBufferCount(s))],
                  r1.ctx, 1, BackBufferCount(s), r1.n, fail)

\* the handles of the actual back buffers, taken when both loops succeeded
get_back_buffers(r2, s) ==
    IF ~r2.ok THEN r2
    ELSE [r2 EXCEPT !.data.actual_back_buffers =
                        [i \in 1..BackBufferCount(s) |-> BackBuffer(s, i - 1)]]

create_proxy_resources(data, s, ctx, fail) ==
    get_back_buffers(
        create_proxy_srvs(
            texture_loop([data EXCEPT !.proxy_textures = Zeros(BackBufferCount(s)),
                                      !.proxy_rtvs = Zeros(BackBufferCount(s)),
                                      !.actual_back_buffers = Zeros(BackBufferCount(s))],
                         ctx, 1, BackBufferCount(s), 0, fail),
            s, fail),
        s)

(***************************************************************************)
(* SwapchainManager::create_copy_pipeline                                  *)
(***************************************************************************)
create_copy_pipeline(data, ctx, n, fail) ==
    LET l == DeviceCreate(ctx, "create_pipeline_layout", n + 1 # fail, 0, 0)
        d1 == [data EXCEPT !.copy_pipeline_layout = l.handle]
    IN IF l.handle = NullHandle THEN [ok |-> FALSE, data |-> d1, ctx |-> l.ctx]
       ELSE LET p == DeviceCreate(l.ctx, "create_pipeline", n + 2 # fail, l.handle, 0)
                d2 == [d1 EXCEPT !.copy_pipeline = p.handle]
            IN IF p.handle = NullHandle THEN [ok |-> FALSE, data |-> d2, ctx |-> p.ctx]
               ELSE LET m == DeviceCreate(p.ctx, "create_sampler", n + 3 # fail, 0, 0)
                        d3 == [d2 EXCEPT !.copy_sampler = m.handle]
                    IN [ok |-> m.handle # NullHandle, data |-> d3, ctx |-> m.ctx]

(***************************************************************************)
(* SwapchainManager::initialize_swapchain.  The host created the swapchain *)
(* with the description the create handler returned, so back buffer 0 has  *)
(* the forced size.                                                        *)
(***************************************************************************)
\* mutant: an existing record is reused without releasing what it holds
find_or_create_uncleaned(table, s, ctx) ==
    IF s \in DOMAIN table THEN [data |-> table[s], ctx |-> ctx]
    ELSE [data |-> NewSwapchainData, ctx |-> ctx]

\* the record of this native handle, cleaned if it exists
find_or_create(table, s, ctx) ==
    IF s \in DOMAIN table THEN cleanup(table[s], ctx)
    ELSE [data |-> NewSwapchainData, ctx |-> ctx]

\* the record's fields set before any resource is created; p is the result
\* of retrieve_pending_info
init_fields(c, data, p, s) ==
    [data EXCEPT !.device_ptr = DeviceOf(s),
                 !.actual_width = c.force_width_,
                 !.actual_height = c.force_height_,
                 !.override_active = TRUE,
                 !.original_width = IF p.found THEN p.width ELSE FallbackWidth,
                 !.original_height = IF p.found THEN p.height ELSE FallbackHeight]

\* create_copy_pipeline is called only when create_proxy_resources succeeded
create_pipeline_after(r1, fail) ==
    IF ~r1.ok THEN [ok |-> FALSE, data |-> r1.data, ctx |-> r1.ctx]
    ELSE create_copy_pipeline(r1.data, r1.ctx, r1.n, fail)

\* mutant: a failed initialization leaves the partly filled record
cleanup_on_failure_partial(r) ==
    [ret |-> r.ok, data |-> r.data, ctx |-> r.ctx]

\* the failure path: cleanup() of the record, and nothing else
cleanup_on_failure(r) ==
    IF r.ok THEN [ret |-> TRUE, data |-> r.data, ctx |-> r.ctx]
    ELSE [ret |-> FALSE, data |-> cleanup(r.data, r.ctx).data,
          ctx |-> cleanup(r.data, r.ctx).ctx]

\* c0 is the record found or created, p the result of retrieve_pending_info,
\* fin the outcome of the creation calls
init_outcome(table, s, p, fin) ==
    [ret |-> fin.ret, table |-> MapPut(table, s, fin.data), pend |-> p.pend,
     ctx |-> fin.ctx, hit |-> p.found, tracked |-> s \in DOMAIN table]

init_resources(c, table, s, fail, c0, p) ==
    init_outcome(table, s, p,
        cleanup_on_failure(
            create_pipeline_after(
                create_proxy_resources(init_fields(c, c0.data, p, s), s, c0.ctx, fail),
                fail)))

initialize_swapchain(c, table, pend, liveSet, s, fail) ==
    IF DeviceOf(s) = NullHandle \/ BackBufferCount(s) = 0
    THEN [ret |-> FALSE, table |-> table, pend |-> pend, ctx |-> StartCtx(liveSet),
          hit |-> FALSE, tracked |-> FALSE]
    ELSE init_resources(c, table, s, fail,
                        find_or_create(table, s, StartCtx(liveSet)),
                        retrieve_pending_info(pend, HwndOf(s)))

(***************************************************************************)
(* SwapchainManager::handle_init_swapchain                                 *)
(***************************************************************************)
IsDxgiApi(api) == api \in {"d3d10", "d3d11", "d3d12"}

\* the inputs of an init_swapchain event that the handler looks at; a fully
\* successful initialize_swapchain makes three creation calls per back buffer
\* and three for the pipeline
InitFailures(s) ==
    IF is_override_enabled(config) /\ HwndOf(s) # NullHandle
    THEN 0..(3 * BackBufferCount(s) + 3) ELSE {0}
InitApis(is_resize) ==
    IF is_override_enabled(config) /\ ~is_resize /\ is_exclusive_fullscreen_enabled(config)
    THEN {"d3d11", "vulkan"} ELSE {"d3d11"}

\* the state after initialize_swapchain returned r, and the exclusive
\* fullscreen request that follows it
InitOverridden(s, is_resize, api, r) ==
    /\ swapchain_data_' = r.table
    /\ pending_swapchains_' = r.pend
    /\ live' = r.ctx.live
    /\ last' = [NoCall EXCEPT !.op = "init_swapchain", !.sc = s,
                              !.hwnd = HwndOf(s), !.dev = DeviceOf(s),
                              !.flag = is_resize, !.ret = r.ret, !.hit = r.hit,
                              !.tracked = r.tracked,
                              !.api = IF ~is_resize /\ is_exclusive_fullscreen_enabled(config)
                                      THEN api ELSE "",
                              !.log = IF ~is_resize /\ is_exclusive_fullscreen_enabled(config)
                                         /\ IsDxgiApi(api)
                                      THEN Append(r.ctx.log, <<"SetFullscreenState", s, 1, 0>>)
                                      ELSE r.ctx.log]
    /\ UNCHANGED <<config, addonVars,
                   mutex_owner, thread_script, requested, sequence_counter_, returned>>

InitSwapchain(s, is_resize, fail, api) ==
    /\ Idle
    /\ IF ~is_override_enabled(config) \/ HwndOf(s) = NullHandle
       THEN /\ last' = [NoCall EXCEPT !.op = "init_swapchain", !.sc = s,
                                      !.hwnd = HwndOf(s), !.flag = is_resize,
                                      !.api = api]
            /\ UNCHANGED <<config, pending_swapchains_, swapchain_data_, live, addonVars,
                           mutex_owner, thread_script, requested, sequence_counter_, returned>>
       ELSE InitOverridden(s, is_resize, api,
                           initialize_swapchain(config, swapchain_data_,
                                                pending_swapchains_, live, s, fail))

(***************************************************************************)
(* SwapchainManager::handle_set_fullscreen_state                           *)
(***************************************************************************)
\* mutant: block_fullscreen_changes is honoured in every mode
handle_set_fullscreen_state_blockfirst(c, fullscreen) ==
    IF c.block_fullscreen_changes_ THEN TRUE
    ELSE IF is_exclusive_fullscreen_enabled(c) THEN ~fullscreen
    ELSE IF is_borderless_fullscreen_enabled(c) THEN fullscreen
    ELSE FALSE

handle_set_fullscreen_state(c, fullscreen) ==
    IF is_exclusive_fullscreen_enabled(c) THEN ~fullscreen
    ELSE IF is_borderless_fullscreen_enabled(c) THEN fullscreen
    ELSE c.block_fullscreen_changes_

SetFullscreenState(s, fullscreen) ==
    /\ Idle
    /\ last' = [NoCall EXCEPT !.op = "set_fullscreen_state", !.sc = s, !.flag = fullscreen,
                              !.ret = handle_set_fullscreen_state(config, fullscreen)]
    /\ UNCHANGED <<config, pending_swapchains_, swapchain_data_, live, addonVars,
                   mutex_owner, thread_script, requested, sequence_counter_, returned>>

(***************************************************************************)
(* SwapchainData::find_proxy_index (zero-based, -1 when absent),           *)
(* SwapchainManager::find_active_data_for_device and                       *)
(* SwapchainManager::handle_bind_render_targets.  The record table is an   *)
(* unordered map, so which of several active records of a device the scan  *)
(* meets first is not determined: find_active_data_for_device is the set   *)
(* of records it can return.                                               *)
(***************************************************************************)
find_proxy_index(data, res) ==
    LET hits == {i \in DOMAIN data.actual_back_buffers : data.actual_back_buffers[i] = res}
    IN IF hits = {} THEN -1
       ELSE (CHOOSE i \in hits : \A j \in hits : i <= j) - 1

find_active_data_for_device(table, dev) ==
    {s \in DOMAIN table : table[s].override_active /\ table[s].device_ptr = dev}

\* found is the record the scan returns, or NullHandle when it returns none
redirect_rtv(table, found, rtv) ==
    IF rtv = NullHandle \/ ResourceFromView(rtv) = NullHandle \/ found = NullHandle
    THEN rtv
    ELSE LET proxy_index == find_proxy_index(table[found], ResourceFromView(rtv))
         IN IF proxy_index >= 0 THEN table[found].proxy_rtvs[proxy_index + 1] ELSE rtv

handle_bind_render_targets(table, found, rtvs, dsv) ==
    LET modified_rtvs == [i \in DOMAIN rtvs |-> redirect_rtv(table, found, rtvs[i])]
        needs_rebind == \E i \in DOMAIN rtvs :
                            /\ rtvs[i] # NullHandle
                            /\ ResourceFromView(rtvs[i]) # NullHandle
                            /\ found # NullHandle
                            /\ find_proxy_index(table[found], ResourceFromView(rtvs[i])) >= 0
    IN [rebind |-> needs_rebind,
        rtvs |-> IF needs_rebind THEN modified_rtvs ELSE <<>>,
        dsv |-> IF needs_rebind THEN dsv ELSE NullHandle]

\* the views the application binds: none, a view of a resource that is no
\* back buffer, and its views of the swapchains' back buffers
RtvArrays ==
    LET BindViews ==
            {NullHandle, AppView(BackBuffer(0, 0))}
            \cup UNION {{AppView(BackBuffer(s, i)) : i \in 0..(BackBufferCount(s) - 1)} :
                            s \in WindowedSwapchains}
    IN UNION {[1..n -> BindViews] : n \in 1..MaxRtvCount}

BindRenderTargets(dev, rtvs, dsv) ==
    LET cands == find_active_data_for_device(swapchain_data_, dev)
    IN /\ Idle
       /\ \E found \in (IF cands = {} THEN {NullHandle} ELSE cands) :
            LET r == handle_bind_render_targets(swapchain_data_, found, rtvs, dsv)
            IN last' = [NoCall EXCEPT !.op = "bind_render_targets", !.dev = dev,
                                      !.sc = found,
                                      !.rtvs_in = rtvs, !.dsv_in = dsv,
                                      !.rebind = r.rebind, !.rtvs_out = r.rtvs,
                                      !.dsv_out = r.dsv]
       /\ UNCHANGED <<config, pending_swapchains_, swapchain_data_, live, addonVars,
                      mutex_owner, thread_script, requested, sequence_counter_, returned>>

(***************************************************************************)
(* SwapchainManager::handle_present.  index is the swapchain's current     *)
(* back-buffer index, cmd_ok whether the queue has an immediate command    *)
(* list, rtv_ok whether the device creates the view of the back buffer,    *)
(* wild what a read of proxy_srvs past its end yields.  The calls on the   *)
(* command list join the device calls in the log.                          *)
(***************************************************************************)
\* mutant: the draw comes before the render target is bound
present_commands_draw_first(data, proxy, back_buffer, srv, r) ==
    IF r.handle = NullHandle THEN r.ctx
    ELSE DeviceDestroy(
             [r.ctx EXCEPT !.log = @ \o
                 <<<<"barrier", proxy, "render_target", "shader_resource">>,
                   <<"barrier", back_buffer, "present", "render_target">>,
                   <<"bind_pipeline", data.copy_pipeline, 0, 0>>,
                   <<"push_descriptors", data.copy_sampler, 0, "sampler">>,
                   <<"push_descriptors", srv, 1, "shader_resource_view">>,
                   <<"draw", 0, 3, 1>>,
                   <<"bind_render_targets_and_depth_stencil", r.handle, 1, 0>>,
                   <<"bind_viewports", 0, data.actual_width, data.actual_height>>,
                   <<"barrier", proxy, "shader_resource", "render_target">>,
                   <<"barrier", back_buffer, "render_target", "present">>>>],
             "destroy_resource_view", r.handle)

\* the calls once the view of the back buffer was attempted with outcome r
present_commands(data, proxy, back_buffer, srv, r) ==
    IF r.handle = NullHandle THEN r.ctx
    ELSE DeviceDestroy(
             [r.ctx EXCEPT !.log = @ \o
                 <<<<"barrier", proxy, "render_target", "shader_resource">>,
                   <<"barrier", back_buffer, "present", "render_target">>,
                   <<"bind_pipeline", data.copy_pipeline, 0, 0>>,
                   <<"push_descriptors", data.copy_sampler, 0, "sampler">>,
                   <<"push_descriptors", srv, 1, "shader_resource_view">>,
                   <<"bind_render_targets_and_depth_stencil", r.handle, 1, 0>>,
                   <<"bind_viewports", 0, data.actual_width, data.actual_height>>,
                   <<"draw", 0, 3, 1>>,
                   <<"barrier", proxy, "shader_resource", "render_target">>,
                   <<"barrier", back_buffer, "render_target", "present">>>>],
             "destroy_resource_view", r.handle)

\* mutant: a swapchain without a record is served from another's record
handle_present_by_device(table, liveSet, s, index, cmd_ok, rtv_ok, wild) ==
    LET k == IF s \in DOMAIN table \/ DOMAIN table = {} THEN s
             ELSE CHOOSE x \in DOMAIN table : TRUE
    IN IF k \notin DOMAIN table \/ ~table[k].override_active
       THEN StartCtx(liveSet)
       ELSE IF index >= Len(table[k].proxy_textures) \/ index >= Len(table[k].proxy_srvs)
       THEN StartCtx(liveSet)
       ELSE IF ~cmd_ok
       THEN StartCtx(liveSet)
       ELSE present_commands(table[k], table[k].proxy_textures[index + 1],
                             BackBuffer(k, index), table[k].proxy_srvs[index + 1],
                             DeviceCreate(StartCtx(liveSet), "create_resource_view", rtv_ok,
                                          BackBuffer(k, index), "render_target"))

handle_present(table, liveSet, s, index, cmd_ok, rtv_ok, wild) ==
    IF s \notin DOMAIN table \/ ~table[s].override_active
    THEN StartCtx(liveSet)
    ELSE IF index >= Len(table[s].proxy_textures)
    THEN StartCtx(liveSet)
    ELSE IF table[s].proxy_textures[index + 1] = NullHandle \/ BackBuffer(s, index) = NullHandle
    THEN StartCtx(liveSet)
    ELSE IF ~cmd_ok
    THEN StartCtx(liveSet)
    ELSE IF (IF index < Len(table[s].proxy_srvs)
             THEN table[s].proxy_srvs[index + 1] ELSE wild) = NullHandle
    THEN StartCtx(liveSet)
    ELSE present_commands(table[s], table[s].proxy_textures[index + 1], BackBuffer(s, index),
                          IF index < Len(table[s].proxy_srvs)
                          THEN table[s].proxy_srvs[index + 1] ELSE wild,
                          DeviceCreate(StartCtx(liveSet), "create_resource_view", rtv_ok,
                                       BackBuffer(s, index), "render_target"))

\* a read past the end of proxy_srvs can yield anything; within it, wild is
\* not consulted
Present(s, index, cmd_ok, rtv_ok, wild) ==
    /\ Idle
    /\ wild # NullHandle =>
           /\ s \in DOMAIN swapchain_data_
           /\ index >= Len(swapchain_data_[s].proxy_srvs)
    /\ live' = handle_present(swapchain_data_, live, s, index, cmd_ok, rtv_ok, wild).live
    /\ last' = [NoCall EXCEPT
                   !.op = "present", !.sc = s, !.index = index,
                   !.cmd_ok = cmd_ok, !.rtv_ok = rtv_ok,
                   !.tracked = s \in DOMAIN swapchain_data_,
                   !.log = handle_present(swapchain_data_, live, s, index, cmd_ok, rtv_ok,
                                          wild).log]
    /\ UNCHANGED <<config, pending_swapchains_, swapchain_data_, addonVars,
                   mutex_owner, thread_script, requested, sequence_counter_, returned>>

(***************************************************************************)
(* Single-precision arithmetic of the viewport and scissor handlers.  A    *)
(* float of the model is an integer number of 1/FloatOne: the values the   *)
(* application passes are whole numbers, and the scale factors the model   *)
(* reaches (original/actual = 1920/3840, 3840/3840, 1080/2160) are powers  *)
(* of two, which a float holds exactly, so every product below is exact.   *)
(* 0.9f is not 9/10: it is NinetyPercentMantissa / 2^23, and the product   *)
(* actual * 0.9f is rounded to 24 significant bits (round to nearest,      *)
(* ties to even).                                                          *)
(***************************************************************************)
FloatOne == 2
NinetyPercentMantissa == 7549747
MantissaBits == 23

RECURSIVE Pow2(_)
Pow2(n) == IF n <= 0 THEN 1 ELSE 2 * Pow2(n - 1)

\* the largest e with 2^e <= k, for k >= 1
RECURSIVE Log2(_)
Log2(k) == IF k < 2 THEN 0 ELSE 1 + Log2(k \div 2)

RoundHalfEven(n, d) ==
    IF 2 * (n % d) > d \/ (2 * (n % d) = d /\ (n \div d) % 2 = 1)
    THEN n \div d + 1 ELSE n \div d

\* mutant: the threshold is 0.8 of the size
FloatTimes90_eighty(w) == [mant |-> ((w * 8) \div 10) * Pow2(MantissaBits - Log2((w * 8) \div 10)),
                           exp |-> Log2((w * 8) \div 10)]

\* static_cast<float>(w) * 0.9f as [mant, exp], the float mant * 2^(exp - 23).
\* The 55-bit product w * NinetyPercentMantissa is kept in two halves,
\* hi * 2^12 + lo.
FloatTimes90(w) ==
    LET hi == w * (NinetyPercentMantissa \div 4096)
        lo == w * (NinetyPercentMantissa % 4096)
        e == Log2(hi + lo \div 4096) - (MantissaBits - 12)
    IN [mant |-> hi * Pow2(12 - e) + RoundHalfEven(lo, Pow2(e)), exp |-> e]

\* v >= t, for a float v of the model and a product t of FloatTimes90
FloatGeq(v, t) == v * Pow2(MantissaBits - t.exp) >= t.mant * FloatOne

\* static_cast<int32_t>(t), for a product t of FloatTimes90
FloatToInt(t) == t.mant \div Pow2(MantissaBits - t.exp)

RECURSIVE Gcd(_, _)
Gcd(a, b) == IF b = 0 THEN a ELSE Gcd(b, a % b)

\* static_cast<float>(a) / static_cast<float>(b), as the fraction <<n, d>>
FloatDiv(a, b) == <<a \div Gcd(a, b), b \div Gcd(a, b)>>

\* v *= scale
FloatMul(v, scale) == (v * scale[1]) \div scale[2]

\* mutant: the scaled corner is rounded down
TruncMul_floor(v, scale) == (v * scale[1]) \div scale[2]

\* static_cast<int32_t>(v * scale) for an integer v: truncation toward zero
TruncMul(v, scale) ==
    IF v >= 0 THEN (v * scale[1]) \div scale[2]
    ELSE 0 - (((0 - v) * scale[1]) \div scale[2])

(***************************************************************************)
(* SwapchainManager::handle_bind_viewports.  found is the record           *)
(* find_active_data_for_device returns, or NullHandle.                     *)
(***************************************************************************)
scale_x(data) == FloatDiv(data.original_width, data.actual_width)
scale_y(data) == FloatDiv(data.original_height, data.actual_height)

viewport_matches(data, vp) ==
    /\ FloatGeq(vp.width, FloatTimes90(data.actual_width))
    /\ FloatGeq(vp.height, FloatTimes90(data.actual_height))

scale_viewport(data, vp) ==
    [x |-> FloatMul(vp.x, scale_x(data)), y |-> FloatMul(vp.y, scale_y(data)),
     width |-> FloatMul(vp.width, scale_x(data)),
     height |-> FloatMul(vp.height, scale_y(data))]

handle_bind_viewports(c, table, found, vps) ==
    IF vps = <<>> \/ ~is_override_enabled(c) \/ found = NullHandle
    THEN [rebind |-> FALSE, vps |-> <<>>]
    ELSE IF \E i \in DOMAIN vps : viewport_matches(table[found], vps[i])
    THEN [rebind |-> TRUE,
          vps |-> [i \in DOMAIN vps |->
                     IF viewport_matches(table[found], vps[i])
                     THEN scale_viewport(table[found], vps[i]) ELSE vps[i]]]
    ELSE [rebind |-> FALSE, vps |-> <<>>]

\* a float holding the whole number n
F(n) == n * FloatOne

\* the viewports the application binds: the whole forced surface, one at
\* exactly nine tenths of it with an offset, one a unit narrower than that
\* and one a unit lower than that
ViewportArrays ==
    LET Viewports ==
            {[x |-> F(0), y |-> F(0), width |-> F(DefaultForceWidth),
              height |-> F(DefaultForceHeight)],
             [x |-> F(0 - 2), y |-> F(4), width |-> F(3456), height |-> F(1944)],
             [x |-> F(0), y |-> F(0), width |-> F(3455), height |-> F(DefaultForceHeight)],
             [x |-> F(0), y |-> F(0), width |-> F(DefaultForceWidth), height |-> F(1943)]}
    IN UNION {[1..n -> Viewports] : n \in 0..MaxViewports}

BindViewports(dev, vps) ==
    /\ Idle
    /\ \E found \in (IF find_active_data_for_device(swapchain_data_, dev) = {}
                     THEN {NullHandle}
                     ELSE find_active_data_for_device(swapchain_data_, dev)) :
         last' = [NoCall EXCEPT
                    !.op = "bind_viewports", !.dev = dev, !.sc = found, !.vps_in = vps,
                    !.rebind = handle_bind_viewports(config, swapchain_data_, found, vps).rebind,
                    !.vps_out = handle_bind_viewports(config, swapchain_data_, found, vps).vps]
    /\ UNCHANGED <<config, pending_swapchains_, swapchain_data_, live, addonVars,
                   mutex_owner, thread_script, requested, sequence_counter_, returned>>

(***************************************************************************)
(* SwapchainManager::handle_bind_scissor_rects                             *)
(***************************************************************************)
rect_matches(data, r) ==
    /\ r.right - r.left >= FloatToInt(FloatTimes90(data.actual_width))
    /\ r.bottom - r.top >= FloatToInt(FloatTimes90(data.actual_height))

scale_rect(data, r) ==
    [left |-> TruncMul(r.left, scale_x(data)), top |-> TruncMul(r.top, scale_y(data)),
     right |-> TruncMul(r.right, scale_x(data)), bottom |-> TruncMul(r.bottom, scale_y(data))]

handle_bind_scissor_rects(c, table, found, rects) ==
    IF rects = <<>> \/ ~is_override_enabled(c) \/ found = NullHandle
    THEN [rebind |-> FALSE, rects |-> <<>>]
    ELSE IF \E i \in DOMAIN rects : rect_matches(table[found], rects[i])
    THEN [rebind |-> TRUE,
          rects |-> [i \in DOMAIN rects |->
                       IF rect_matches(table[found], rects[i])
                       THEN scale_rect(table[found], rects[i]) ELSE rects[i]]]
    ELSE [rebind |-> FALSE, rects |-> <<>>]

\* the scissor rectangles the application binds: the whole forced surface,
\* one of exactly nine tenths of it with odd and negative corners, one a
\* unit narrower than that and one a unit lower than that
RectArrays ==
    LET Rects ==
            {[left |-> 0, top |-> 0, right |-> DefaultForceWidth, bottom |-> DefaultForceHeight],
             [left |-> 0 - 1, top |-> 3, right |-> 3455, bottom |-> 1947],
             [left |-> 1, top |-> 0, right |-> 3456, bottom |-> DefaultForceHeight],
             [left |-> 0, top |-> 1, right |-> DefaultForceWidth, bottom |-> 1944]}
    IN UNION {[1..n -> Rects] : n \in 0..MaxViewports}

BindScissorRects(dev, rects) ==
    /\ Idle
    /\ \E found \in (IF find_active_data_for_device(swapchain_data_, dev) = {}
                     THEN {NullHandle}
                     ELSE find_active_data_for_device(swapchain_data_, dev)) :
         last' = [NoCall EXCEPT
                    !.op = "bind_scissor_rects", !.dev = dev, !.sc = found,
                    !.rects_in = rects,
                    !.rebind = handle_bind_scissor_rects(config, swapchain_data_, found, rects).rebind,
                    !.rects_out = handle_bind_scissor_rects(config, swapchain_data_, found, rects).rects]
    /\ UNCHANGED <<config, pending_swapchains_, swapchain_data_, live, addonVars,
                   mutex_owner, thread_script, requested, sequence_counter_, returned>>

(***************************************************************************)
(* SwapchainManager::handle_destroy_swapchain / destroy_swapchain          *)
(***************************************************************************)
destroy_swapchain(table, liveSet, s) ==
    IF s \in DOMAIN table
    THEN [table |-> MapErase(table, s), ctx |-> cleanup(table[s], StartCtx(liveSet)).ctx]
    ELSE [table |-> table, ctx |-> StartCtx(liveSet)]

\* mutant: a resize-driven destroy releases the record too
handle_destroy_swapchain_always(table, liveSet, s, is_resize) ==
    destroy_swapchain(table, liveSet, s)

handle_destroy_swapchain(table, liveSet, s, is_resize) ==
    IF is_resize THEN [table |-> table, ctx |-> StartCtx(liveSet)]
    ELSE destroy_swapchain(table, liveSet, s)

DestroySwapchain(s, is_resize) ==
    LET r == handle_destroy_swapchain(swapchain_data_, live, s, is_resize)
    IN /\ Idle
       /\ swapchain_data_' = r.table
       /\ live' = r.ctx.live
       /\ last' = [NoCall EXCEPT !.op = "destroy_swapchain", !.sc = s, !.flag = is_resize,
                                 !.tracked = s \in DOMAIN swapchain_data_,
                                 !.log = r.ctx.log]
       /\ UNCHANGED <<config, pending_swapchains_, addonVars,
                      mutex_owner, thread_script, requested, sequence_counter_, returned>>

\* the sizes the application asks for: one that differs from the default
\* forced size (in its height only, and from the fallback size too), and the
\* default forced size itself
RequestSizes == {<<DefaultForceWidth, FallbackHeight>>,
                 <<DefaultForceWidth, DefaultForceHeight>>}
Descs == {[width |-> sz[1], height |-> sz[2], fullscreen_state |-> fs, present_flags |-> pf] :
              sz \in RequestSizes, fs \in BOOLEAN, pf \in {0, 1, 3}}

CreateSwapchain(desc, hwnd) ==
    LET r == handle_create_swapchain(config, pending_swapchains_, desc, hwnd)
    IN /\ Idle
       /\ pending_swapchains_' = r.pend
       /\ last' = [NoCall EXCEPT !.op = "create_swapchain", !.hwnd = hwnd,
                                 !.desc_in = desc, !.desc_out = r.desc, !.ret = r.ret]
       /\ UNCHANGED <<config, swapchain_data_, live, addonVars,
                      mutex_owner, thread_script, sequence_counter_, returned>>

(***************************************************************************)
(* Config::load.  The host's configuration store holds, per key, nothing   *)
(* (<<>>) or one value (<<v>>): the resolution as text (a sequence of      *)
(* characters), the other four as numbers, which the host's typed          *)
(* accessors read back as written (a bool is stored as 0 or 1).            *)
(***************************************************************************)
\* a default-constructed Config
FreshConfig ==
    [force_width_ |-> 0, force_height_ |-> 0, fullscreen_mode_ |-> "Unchanged",
     block_fullscreen_changes_ |-> FALSE, scaling_filter_ |-> "min_mag_mip_linear",
     target_monitor_ |-> 0]

DefaultResolutionString == <<"3", "8", "4", "0", "x", "2", "1", "6", "0">>

DigitValue(ch) ==
    CASE ch = "0" -> 0 [] ch = "1" -> 1 [] ch = "2" -> 2 [] ch = "3" -> 3 [] ch = "4" -> 4
      [] ch = "5" -> 5 [] ch = "6" -> 6 [] ch = "7" -> 7 [] ch = "8" -> 8 [] ch = "9" -> 9
      [] OTHER -> 0 - 1

\* the character at position p of a zero-terminated buffer
CharAt(s, p) == IF p <= Len(s) THEN s[p] ELSE "NUL"

RECURSIVE SkipSpace(_, _)
SkipSpace(s, p) == IF CharAt(s, p) = " " THEN SkipSpace(s, p + 1) ELSE p

RECURSIVE ParseDigits(_, _, _)
ParseDigits(s, p, acc) ==
    IF DigitValue(CharAt(s, p)) >= 0
    THEN ParseDigits(s, p + 1, acc * 10 + DigitValue(CharAt(s, p)))
    ELSE [value |-> acc, pos |-> p]

\* strtoul(s + p - 1, &end, 10) for unsigned text: leading blanks and a '+'
\* are skipped; without a digit the result is 0 and end is where it began
strtoul(s, p) ==
    IF DigitValue(CharAt(s, IF CharAt(s, SkipSpace(s, p)) = "+"
                            THEN SkipSpace(s, p) + 1 ELSE SkipSpace(s, p))) >= 0
    THEN ParseDigits(s, IF CharAt(s, SkipSpace(s, p)) = "+"
                        THEN SkipSpace(s, p) + 1 ELSE SkipSpace(s, p), 0)
    ELSE [value |-> 0, pos |-> p]

resolution_accepted(width, terminator, height) ==
    width # 0 /\ height # 0 /\ terminator = "x"

\* the parsed text: w is the result of the first strtoul
parse_resolution(r, text, w) ==
    IF resolution_accepted(w.value, CharAt(text, w.pos), strtoul(text, w.pos + 1).value)
    THEN [r EXCEPT !.config.force_width_ = w.value,
                   !.config.force_height_ = strtoul(text, w.pos + 1).value]
    ELSE r

\* r is [config, store]
load_resolution(r) ==
    IF r.store.ForceSwapchainResolution # <<>>
    THEN parse_resolution(r, r.store.ForceSwapchainResolution[1],
                          strtoul(r.store.ForceSwapchainResolution[1], 1))
    ELSE [r EXCEPT !.store.ForceSwapchainResolution = <<DefaultResolutionString>>,
                   !.config.force_width_ = DefaultForceWidth,
                   !.config.force_height_ = DefaultForceHeight]

\* mutant: an absent filter key is left absent
load_filter_unwritten(r) ==
    IF r.store.SwapchainScalingFilter # <<>>
    THEN [r EXCEPT !.config.scaling_filter_ =
                       CASE r.store.SwapchainScalingFilter[1] = 0 -> "min_mag_mip_point"
                         [] r.store.SwapchainScalingFilter[1] = 1 -> "min_mag_mip_linear"
                         [] r.store.SwapchainScalingFilter[1] = 2 -> "min_mag_linear_mip_point"
                         [] OTHER -> "min_mag_mip_linear"]
    ELSE r

load_filter(r) ==
    IF r.store.SwapchainScalingFilter # <<>>
    THEN [r EXCEPT !.config.scaling_filter_ =
                       CASE r.store.SwapchainScalingFilter[1] = 0 -> "min_mag_mip_point"
                         [] r.store.SwapchainScalingFilter[1] = 1 -> "min_mag_mip_linear"
                         [] r.store.SwapchainScalingFilter[1] = 2 -> "min_mag_linear_mip_point"
                         [] OTHER -> "min_mag_mip_linear"]
    ELSE [r EXCEPT !.store.SwapchainScalingFilter = <<1>>]

load_fullscreen_mode(r) ==
    IF r.store.FullscreenMode # <<>>
    THEN [r EXCEPT !.config.fullscreen_mode_ =
                       CASE r.store.FullscreenMode[1] = 0 -> "Unchanged"
                         [] r.store.FullscreenMode[1] = 1 -> "Borderless"
                         [] r.store.FullscreenMode[1] = 2 -> "Exclusive"
                         [] OTHER -> "Unchanged"]
    ELSE [r EXCEPT !.store.FullscreenMode = <<0>>]

load_block(r) ==
    IF r.store.BlockFullscreenChanges # <<>>
    THEN [r EXCEPT !.config.block_fullscreen_changes_ = (r.store.BlockFullscreenChanges[1] # 0)]
    ELSE [r EXCEPT !.store.BlockFullscreenChanges = <<0>>]

load_monitor(r) ==
    IF r.store.TargetMonitor # <<>>
    THEN [r EXCEPT !.config.target_monitor_ = r.store.TargetMonitor[1]]
    ELSE [r EXCEPT !.store.TargetMonitor = <<0>>, !.config.target_monitor_ = 0]

load(c, st) ==
    load_monitor(load_block(load_fullscreen_mode(load_filter(load_resolution(
        [config |-> c, store |-> st])))))

Load ==
    /\ Idle
    /\ config' = load(config, config_store).config
    /\ config_store' = load(config, config_store).store
    /\ last' = [NoCall EXCEPT !.op = "load"]
    /\ UNCHANGED <<pending_swapchains_, swapchain_data_, live, addon_instance_count_,
                   hooks_installed_, hook_handles, dll_pc, host_registered, dll_log,
                   mutex_owner, thread_script, requested, sequence_counter_, returned>>

\* what the store may hold when the addon is loaded: per key nothing, a
\* well-formed value or a malformed one
ResolutionTexts ==
    {DefaultResolutionString,
     <<"0", "x", "0">>,
     <<"1", "9", "2", "0", "x", "1", "0", "8", "0">>,
     <<"3", "8", "4", "0", ",", "2", "1", "6", "0">>,
     <<"1", "2", "8", "0", "x">>,
     <<"1", "9", "2", "0", "x", "0">>,
     <<" ", "+", "6", "4", "0", "x", "4", "8", "0", "p">>}
Optional(S) == {<<>>} \cup {<<v>> : v \in S}
Stores ==
    [ForceSwapchainResolution : Optional(ResolutionTexts),
     SwapchainScalingFilter : Optional(0..3),
     FullscreenMode : Optional(0..3),
     BlockFullscreenChanges : Optional({0, 1}),
     TargetMonitor : Optional({0, 1})]

\* the store a loaded configuration was read from
StoreFor(c) ==
    [ForceSwapchainResolution |->
         <<IF c.force_width_ = 0 THEN <<"0", "x", "0">> ELSE DefaultResolutionString>>,
     SwapchainScalingFilter |-> <<1>>,
     FullscreenMode |-> <<CASE c.fullscreen_mode_ = "Borderless" -> 1
                            [] c.fullscreen_mode_ = "Exclusive" -> 2
                            [] OTHER -> 0>>,
     BlockFullscreenChanges |-> <<IF c.block_fullscreen_changes_ THEN 1 ELSE 0>>,
     TargetMonitor |-> <<c.target_monitor_>>]

(***************************************************************************)
(* WindowHooks::install / WindowHooks::uninstall (64-bit build: nine       *)
(* hooks).  attached is the set of hooks safetyhook::create_inline manages *)
(* to attach in this call; a handle assigned in install() holds the hook   *)
(* attached in that call.                                                  *)
(***************************************************************************)
HookNames ==
    {"CreateWindowExA", "CreateWindowExW", "SetWindowLongA", "SetWindowLongW",
     "SetWindowLongPtrA", "SetWindowLongPtrW", "SetWindowPos",
     "AdjustWindowRect", "AdjustWindowRectEx"}

\* all hooks attach, none does, all but one do, only one does
AttachOutcomes ==
    {HookNames, {}} \cup {HookNames \ {h} : h \in HookNames} \cup {{h} : h \in HookNames}

\* mutant: the call that finds the hooks installed does not count itself
install_uncounted(count, installed, handles, c, attached) ==
    IF installed
    THEN [count |-> count, installed |-> TRUE, handles |-> handles, ret |-> TRUE]
    ELSE IF ~is_borderless_fullscreen_enabled(c)
    THEN [count |-> count + 1, installed |-> FALSE, handles |-> handles, ret |-> TRUE]
    ELSE [count |-> count + 1, installed |-> attached = HookNames, handles |-> attached,
          ret |-> attached = HookNames]

install(count, installed, handles, c, attached) ==
    IF installed
    THEN [count |-> count + 1, installed |-> TRUE, handles |-> handles, ret |-> TRUE]
    ELSE IF ~is_borderless_fullscreen_enabled(c)
    THEN [count |-> count + 1, installed |-> FALSE, handles |-> handles, ret |-> TRUE]
    ELSE [count |-> count + 1, installed |-> attached = HookNames, handles |-> attached,
          ret |-> attached = HookNames]

\* the counter after the decrement of uninstall()
decremented(count) == IF count > 0 THEN count - 1 ELSE count

uninstall(count, installed, handles) ==
    IF decremented(count) > 0 \/ ~installed
    THEN [count |-> decremented(count), installed |-> installed, handles |-> handles]
    ELSE [count |-> decremented(count), installed |-> FALSE, handles |-> {}]

\* the variables of WindowHooks after a call that returned r
HooksBecome(r) ==
    /\ addon_instance_count_' = r.count
    /\ hooks_installed_' = r.installed
    /\ hook_handles' = r.handles

Install(attached) ==
    /\ Idle
    /\ addon_instance_count_ < MaxInstances
    /\ HooksBecome(install(addon_instance_count_, hooks_installed_, hook_handles,
                           config, attached))
    /\ last' = [NoCall EXCEPT !.op = "install",
                              !.ret = install(addon_instance_count_, hooks_installed_,
                                              hook_handles, config, attached).ret]
    /\ UNCHANGED <<config, pending_swapchains_, swapchain_data_, live,
                   dll_pc, host_registered, dll_log, config_store,
                   mutex_owner, thread_script, requested, sequence_counter_, returned>>

Uninstall ==
    /\ Idle
    /\ HooksBecome(uninstall(addon_instance_count_, hooks_installed_, hook_handles))
    /\ last' = [NoCall EXCEPT !.op = "uninstall"]
    /\ UNCHANGED <<config, pending_swapchains_, swapchain_data_, live,
                   dll_pc, host_registered, dll_log, config_store,
                   mutex_owner, thread_script, requested, sequence_counter_, returned>>

(***************************************************************************)
(* WindowHooks::get_target_monitor_rect.  A monitor is its HMONITOR, the   *)
(* primary one the monitor at the origin; monitors is the order in which   *)
(* EnumDisplayMonitors reports the attached displays.                      *)
(***************************************************************************)
PrimaryMonitor == 1

\* the orders in which up to MaxMonitors displays can be enumerated
MonitorLayouts ==
    UNION {{o \in [1..n -> 1..n] : \A i, j \in 1..n : o[i] = o[j] => i = j} : n \in 1..MaxMonitors}

\* EnumDisplayMonitors calling MonitorEnumProc on the monitors from position
\* i on; data is the MonitorEnumData
RECURSIVE EnumDisplayMonitors(_, _, _)
EnumDisplayMonitors(monitors, i, data) ==
    IF i > Len(monitors) THEN data
    ELSE IF data.current_index = data.target_index
    THEN [data EXCEPT !.found_monitor = monitors[i]]
    ELSE EnumDisplayMonitors(monitors, i + 1,
                             [data EXCEPT !.current_index = data.current_index + 1])

\* the outcome once the enumeration returned data
monitor_found(data, info_ok) ==
    [ret |-> info_ok,
     monitor |-> IF data.found_monitor # NullHandle THEN data.found_monitor ELSE PrimaryMonitor,
     warned |-> data.found_monitor = NullHandle]

\* mutant: the target counts the enumerated monitors from one
get_target_monitor_rect_onebased(c, monitors, info_ok) ==
    IF c.target_monitor_ = 0
    THEN [ret |-> info_ok, monitor |-> PrimaryMonitor, warned |-> FALSE]
    ELSE monitor_found(EnumDisplayMonitors(monitors, 1,
                           [target_index |-> c.target_monitor_, current_index |-> 1,
                            found_monitor |-> NullHandle]), info_ok)

get_target_monitor_rect(c, monitors, info_ok) ==
    IF c.target_monitor_ = 0
    THEN [ret |-> info_ok, monitor |-> PrimaryMonitor, warned |-> FALSE]
    ELSE monitor_found(EnumDisplayMonitors(monitors, 1,
                           [target_index |-> c.target_monitor_, current_index |-> 0,
                            found_monitor |-> NullHandle]), info_ok)

GetTargetMonitorRect(monitors, info_ok) ==
    /\ Idle
    /\ last' = [NoCall EXCEPT
                   !.op = "get_target_monitor_rect", !.monitors = monitors,
                   !.ret = get_target_monitor_rect(config, monitors, info_ok).ret,
                   !.monitor = get_target_monitor_rect(config, monitors, info_ok).monitor,
                   !.warned = get_target_monitor_rect(config, monitors, info_ok).warned]
    /\ UNCHANGED <<config, pending_swapchains_, swapchain_data_, live, addonVars,
                   mutex_owner, thread_script, requested, sequence_counter_, returned>>

(***************************************************************************)
(* SwapchainManager::cleanup_all: every record is deleted (its destructor  *)
(* runs cleanup()), in the iteration order of the unordered map, and the   *)
(* pending entries are dropped.                                            *)
(***************************************************************************)
RECURSIVE delete_records(_, _, _)
delete_records(table, order, ctx) ==
    IF order = <<>> THEN ctx
    ELSE delete_records(table, Tail(order), cleanup(table[Head(order)], ctx).ctx)

\* the orders in which the records of a table can be visited
IterationOrders(table) ==
    {o \in [1..Cardinality(DOMAIN table) -> DOMAIN table] :
        \A i, j \in DOMAIN o : o[i] = o[j] => i = j}

cleanup_all(table, liveSet, order) ==
    [table |-> EmptyMap, pending |-> EmptyMap,
     ctx |-> delete_records(table, order, StartCtx(liveSet))]

(***************************************************************************)
(* DllMain.  dll_pc is the step the entry point executes next, dll_log the *)
(* steps the current call has executed, host_registered what the host      *)
(* holds of the addon.                                                     *)
(***************************************************************************)
\* DLL_PROCESS_ATTACH: the step that follows a completed step
attach_after(step) ==
    CASE step = "register_addon" -> "load"
      [] step = "load" -> "install_hooks"
      [] step = "install_hooks" -> "register_events"
      [] OTHER -> "loaded"

\* mutant: the event callbacks are unregistered before the records are freed
detach_after_unregister_first(step) ==
    CASE step = "uninstall_hooks" -> "unregister_events"
      [] step = "unregister_events" -> "cleanup_all"
      [] step = "cleanup_all" -> "unregister_addon"
      [] OTHER -> "detached"

\* DLL_PROCESS_DETACH: the step that follows a completed step
detach_after(step) ==
    CASE step = "uninstall_hooks" -> "cleanup_all"
      [] step = "cleanup_all" -> "unregister_events"
      [] step = "unregister_events" -> "unregister_addon"
      [] OTHER -> "detached"

\* the overlay callback is registered with the event callbacks and is the
\* first thing a detach gives up
overlay_attach_after(step) ==
    IF step = "register_events" THEN "register_overlay" ELSE attach_after(step)
overlay_detach_after(step) ==
    IF step = "unregister_overlay" THEN "uninstall_hooks" ELSE detach_after(step)
detach_entry == "unregister_overlay"

\* a step of DllMain ran: the log grows and the entry point moves on
Stepped(step, next) == dll_pc' = next /\ dll_log' = Append(dll_log, step)

RegisterAddon(ok) ==
    /\ Idle /\ dll_pc = "unloaded"
    /\ dll_pc' = IF ok THEN overlay_attach_after("register_addon") ELSE "failed"
    /\ dll_log' = <<"register_addon">>
    /\ host_registered' = IF ok THEN {"addon"} ELSE {}
    /\ UNCHANGED <<config, pending_swapchains_, swapchain_data_, live, last,
                   addon_instance_count_, hooks_installed_, hook_handles, config_store,
                   mutex_owner, thread_script, requested, sequence_counter_, returned>>

LoadConfig ==
    /\ Idle /\ dll_pc = "load"
    /\ config' = load(config, config_store).config
    /\ config_store' = load(config, config_store).store
    /\ Stepped("load", overlay_attach_after("load"))
    /\ UNCHANGED <<pending_swapchains_, swapchain_data_, live, last, host_registered,
                   addon_instance_count_, hooks_installed_, hook_handles,
                   mutex_owner, thread_script, requested, sequence_counter_, returned>>

InstallHooks(attached) ==
    /\ Idle /\ dll_pc = "install_hooks"
    /\ HooksBecome(install(addon_instance_count_, hooks_installed_, hook_handles,
                           config, attached))
    /\ Stepped("install_hooks", overlay_attach_after("install_hooks"))
    /\ UNCHANGED <<config, pending_swapchains_, swapchain_data_, live, last,
                   host_registered, config_store,
                   mutex_owner, thread_script, requested, sequence_counter_, returned>>

RegisterEvents ==
    /\ Idle /\ dll_pc = "register_events"
    /\ host_registered' = host_registered \cup {"events"}
    /\ Stepped("register_events", overlay_attach_after("register_events"))
    /\ UNCHANGED <<config, pending_swapchains_, swapchain_data_, live, last,
                   addon_instance_count_, hooks_installed_, hook_handles, config_store,
                   mutex_owner, thread_script, requested, sequence_counter_, returned>>

RegisterOverlay ==
    /\ Idle /\ dll_pc = "register_overlay"
    /\ host_registered' = host_registered \cup {"overlay"}
    /\ Stepped("register_overlay", overlay_attach_after("register_overlay"))
    /\ UNCHANGED <<config, pending_swapchains_, swapchain_data_, live, last,
                   addon_instance_count_, hooks_installed_, hook_handles, config_store,
                   mutex_owner, thread_script, requested, sequence_counter_, returned>>

\* the loader calls the entry point with DLL_PROCESS_DETACH
Detach ==
    /\ Idle /\ dll_pc = "loaded"
    /\ dll_pc' = detach_entry
    /\ dll_log' = <<>>
    /\ UNCHANGED <<config, pending_swapchains_, swapchain_data_, live, last, host_registered,
                   addon_instance_count_, hooks_installed_, hook_handles, config_store,
                   mutex_owner, thread_script, requested, sequence_counter_, returned>>

UnregisterOverlay ==
    /\ Idle /\ dll_pc = "unregister_overlay"
    /\ host_registered' = host_registered \ {"overlay"}
    /\ Stepped("unregister_overlay", overlay_detach_after("unregister_overlay"))
    /\ UNCHANGED <<config, pending_swapchains_, swapchain_data_, live, last,
                   addon_instance_count_, hooks_installed_, hook_handles, config_store,
                   mutex_owner, thread_script, requested, sequence_counter_, returned>>

UninstallHooks ==
    /\ Idle /\ dll_pc = "uninstall_hooks"
    /\ HooksBecome(uninstall(addon_instance_count_, hooks_installed_, hook_handles))
    /\ Stepped("uninstall_hooks", overlay_detach_after("uninstall_hooks"))
    /\ UNCHANGED <<config, pending_swapchains_, swapchain_data_, live, last,
                   host_registered, config_store,
                   mutex_owner, thread_script, requested, sequence_counter_, returned>>

CleanupAll(order) ==
    /\ Idle /\ dll_pc = "cleanup_all"
    /\ swapchain_data_' = cleanup_all(swapchain_data_, live, order).table
    /\ pending_swapchains_' = cleanup_all(swapchain_data_, live, order).pending
    /\ live' = cleanup_all(swapchain_data_, live, order).ctx.live
    /\ last' = [NoCall EXCEPT !.op = "cleanup_all",
                              !.log = cleanup_all(swapchain_data_, live, order).ctx.log]
    /\ Stepped("cleanup_all", overlay_detach_after("cleanup_all"))
    /\ UNCHANGED <<config, host_registered,
                   addon_instance_count_, hooks_installed_, hook_handles, config_store,
                   mutex_owner, thread_script, requested, sequence_counter_, returned>>

UnregisterEvents ==
    /\ Idle /\ dll_pc = "unregister_events"
    /\ host_registered' = host_registered \ {"events"}
    /\ Stepped("unregister_events", overlay_detach_after("unregister_events"))
    /\ UNCHANGED <<config, pending_swapchains_, swapchain_data_, live, last,
                   addon_instance_count_, hooks_installed_, hook_handles, config_store,
                   mutex_owner, thread_script, requested, sequence_counter_, returned>>

UnregisterAddon ==
    /\ Idle /\ dll_pc = "unregister_addon"
    /\ host_registered' = host_registered \ {"addon"}
    /\ Stepped("unregister_addon", overlay_detach_after("unregister_addon"))
    /\ UNCHANGED <<config, pending_swapchains_, swapchain_data_, live, last,
                   addon_instance_count_, hooks_installed_, hook_handles, config_store,
                   mutex_owner, thread_script, requested, sequence_counter_, returned>>


(***************************************************************************)
(* The locking of SwapchainManager.  Each entry point takes and gives up   *)
(* the two std::mutex members in a fixed sequence (a std::lock_guard gives *)
(* up its mutex at the end of its scope, inner scope first); a path that   *)
(* returns early makes a shorter sequence that another entry point has.    *)
(***************************************************************************)
\* mutant: cleanup_all takes the pending-table lock before the record lock
LockScripts_cleanup_pending_first ==
    LET Holding(m, inner) == <<<<"lock", m>>>> \o inner \o <<<<"unlock", m>>>>
    IN [handle_create_swapchain |-> Holding("pending_mutex_", <<>>),
        initialize_swapchain |->
            Holding("swapchain_mutex_", Holding("pending_mutex_", <<>>)),
        destroy_swapchain |-> Holding("swapchain_mutex_", <<>>),
        handle_bind_render_targets |-> Holding("swapchain_mutex_", <<>>),
        handle_bind_viewports |-> Holding("swapchain_mutex_", <<>>),
        handle_bind_scissor_rects |-> Holding("swapchain_mutex_", <<>>),
        handle_present |-> Holding("swapchain_mutex_", <<>>),
        for_each_swapchain |-> Holding("swapchain_mutex_", <<>>),
        cleanup_all |-> Holding("pending_mutex_", Holding("swapchain_mutex_", <<>>))]

LockScripts ==
    LET Holding(m, inner) == <<<<"lock", m>>>> \o inner \o <<<<"unlock", m>>>>
    IN [handle_create_swapchain |-> Holding("pending_mutex_", <<>>),
        initialize_swapchain |->
            Holding("swapchain_mutex_", Holding("pending_mutex_", <<>>)),
        destroy_swapchain |-> Holding("swapchain_mutex_", <<>>),
        handle_bind_render_targets |-> Holding("swapchain_mutex_", <<>>),
        handle_bind_viewports |-> Holding("swapchain_mutex_", <<>>),
        handle_bind_scissor_rects |-> Holding("swapchain_mutex_", <<>>),
        handle_present |-> Holding("swapchain_mutex_", <<>>),
        for_each_swapchain |-> Holding("swapchain_mutex_", <<>>),
        cleanup_all |-> Holding("swapchain_mutex_", Holding("pending_mutex_", <<>>))]

\* thread th, not inside SwapchainManager, calls entry point fn
Enter(th, fn) ==
    /\ thread_script[th] = <<>>
    /\ thread_script' = [thread_script EXCEPT ![th] = LockScripts[fn]]
    /\ UNCHANGED <<config, pending_swapchains_, swapchain_data_, live, last, addonVars,
                   mutex_owner, requested, sequence_counter_, returned>>

\* std::mutex::lock: the thread waits until the mutex is free
Lock(th) ==
    /\ thread_script[th] # <<>>
    /\ Head(thread_script[th])[1] = "lock"
    /\ mutex_owner[Head(thread_script[th])[2]] = 0
    /\ mutex_owner' = [mutex_owner EXCEPT ![Head(thread_script[th])[2]] = th]
    /\ thread_script' = [thread_script EXCEPT ![th] = Tail(thread_script[th])]
    /\ UNCHANGED <<config, pending_swapchains_, swapchain_data_, live, last, addonVars,
                   requested, sequence_counter_, returned>>

Unlock(th) ==
    /\ thread_script[th] # <<>>
    /\ Head(thread_script[th])[1] = "unlock"
    /\ mutex_owner' = [mutex_owner EXCEPT ![Head(thread_script[th])[2]] = 0]
    /\ thread_script' = [thread_script EXCEPT ![th] = Tail(thread_script[th])]
    /\ UNCHANGED <<config, pending_swapchains_, swapchain_data_, live, last, addonVars,
                   requested, sequence_counter_, returned>>

(***************************************************************************)
(* OverlayManager::render_overlay.  The callback first copies five fields  *)
(* and the handle of every record inside for_each_swapchain, which holds   *)
(* swapchain_mutex_ around the loop, and then draws from the copy; the     *)
(* copy is a local of the thread and travels with its draw step.           *)
(***************************************************************************)
\* mutant: the drawing is done inside for_each_swapchain
render_overlay_draws_locked ==
    <<<<"lock", "swapchain_mutex_">>, <<"copy", <<>>>>, <<"draw", <<>>>>,
      <<"unlock", "swapchain_mutex_">>>>

render_overlay ==
    <<<<"lock", "swapchain_mutex_">>, <<"copy", <<>>>>,
      <<"unlock", "swapchain_mutex_">>, <<"draw", <<>>>>>>

\* thread th enters the callback, or takes its copying or its drawing step;
\* order is the order in which the loop meets the records
Overlay(th, order) ==
    /\ \/ /\ thread_script[th] = <<>>
          /\ thread_script' = [thread_script EXCEPT ![th] = render_overlay]
          /\ UNCHANGED last
       \/ /\ thread_script[th] # <<>>
          /\ Head(thread_script[th])[1] = "copy"
          /\ thread_script' = [thread_script EXCEPT ![th] =
                 [i \in 1..(Len(@) - 1) |->
                     IF @[i + 1][1] = "draw"
                     THEN <<"draw", [j \in DOMAIN order |->
                                       <<order[j],
                                         swapchain_data_[order[j]].original_width,
                                         swapchain_data_[order[j]].original_height,
                                         swapchain_data_[order[j]].actual_width,
                                         swapchain_data_[order[j]].actual_height,
                                         swapchain_data_[order[j]].override_active>>]>>
                     ELSE @[i + 1]]]
          /\ UNCHANGED last
       \/ /\ thread_script[th] # <<>>
          /\ Head(thread_script[th])[1] = "draw"
          /\ Idle
          /\ thread_script' = [thread_script EXCEPT ![th] = Tail(@)]
          /\ last' = [NoCall EXCEPT !.op = "render_overlay",
                                    !.log = Head(thread_script[th])[2]]
    /\ UNCHANGED <<config, pending_swapchains_, swapchain_data_, live, addonVars,
                   mutex_owner, requested, sequence_counter_, returned>>

(***************************************************************************)
(* DebugLogger.  get_next_sequence holds sequence_mutex_ around its        *)
(* pre-increment of the 32-bit counter, which reads the counter and then   *)
(* writes it; the value read is a local of the thread and travels with its *)
(* write step.  format_event_header reads the counter without the mutex:   *)
(* while another thread is inside get_next_sequence the read races with    *)
(* the write and can yield any value.  A call is made only while the       *)
(* counter is below MaxSequence, far from the end of its 32 bits.          *)
(***************************************************************************)
MaxSequence == 3

\* mutant: the increment is made without the mutex
get_next_sequence_unlocked ==
    <<<<"load", 0>>, <<"store", 0>>>>

get_next_sequence ==
    <<<<"lock", "sequence_mutex_">>, <<"load", 0>>, <<"store", 0>>,
      <<"unlock", "sequence_mutex_">>>>

\* thread th calls get_next_sequence, or takes the read or the write of the
\* increment
GetNextSequence(th) ==
    /\ \/ /\ thread_script[th] = <<>>
          /\ sequence_counter_ < MaxSequence
          /\ thread_script' = [thread_script EXCEPT ![th] = get_next_sequence]
          /\ UNCHANGED <<sequence_counter_, returned>>
       \/ /\ thread_script[th] # <<>>
          /\ Head(thread_script[th])[1] = "load"
          /\ thread_script' = [thread_script EXCEPT ![th] =
                 [Tail(@) EXCEPT ![1] = <<"store", sequence_counter_>>]]
          /\ UNCHANGED <<sequence_counter_, returned>>
       \/ /\ thread_script[th] # <<>>
          /\ Head(thread_script[th])[1] = "store"
          /\ sequence_counter_' = Head(thread_script[th])[2] + 1
          /\ returned' = Append(returned, Head(thread_script[th])[2] + 1)
          /\ thread_script' = [thread_script EXCEPT ![th] = Tail(@)]
    /\ UNCHANGED <<config, pending_swapchains_, swapchain_data_, live, last, addonVars,
                   mutex_owner, requested>>

\* seen is the value the header shows
FormatEventHeader(seen) ==
    /\ Idle
    /\ mutex_owner["sequence_mutex_"] = 0 => seen = sequence_counter_
    /\ last' = [NoCall EXCEPT !.op = "format_event_header", !.index = seen]
    /\ UNCHANGED <<config, pending_swapchains_, swapchain_data_, live, addonVars,
                   mutex_owner, thread_script, requested, sequence_counter_, returned>>

(***************************************************************************)
(* The hooked window functions.  A style or a flag word is the set of the  *)
(* bits set in it; debug is what Config::is_debug_mode_enabled() returns   *)
(* during the call, r what get_target_monitor_rect returns, orig the       *)
(* result of the original function.  The A, W and Ptr variants of a hook   *)
(* have the same body.  In debug mode a hook takes a sequence number from  *)
(* the DebugLogger.                                                        *)
(***************************************************************************)
\* mi.rcMonitor of a monitor: the displays stand side by side
MonitorRect(m) ==
    [left |-> (m - 1) * 1920, top |-> 0, right |-> m * 1920, bottom |-> 1080]

\* the arguments the original CreateWindowEx is called with
hooked_CreateWindowEx(debug, c, r, a) ==
    IF debug \/ ~is_borderless_fullscreen_enabled(c) THEN a
    ELSE IF r.ret
    THEN [dwStyle |-> (a.dwStyle \ {"WS_CAPTION", "WS_SYSMENU", "WS_THICKFRAME",
                                    "WS_MINIMIZEBOX", "WS_MAXIMIZEBOX"})
                          \cup {"WS_POPUP", "WS_VISIBLE"},
          dwExStyle |-> a.dwExStyle \ {"WS_EX_WINDOWEDGE", "WS_EX_CLIENTEDGE",
                                       "WS_EX_DLGMODALFRAME"},
          X |-> MonitorRect(r.monitor).left, Y |-> MonitorRect(r.monitor).top,
          nWidth |-> MonitorRect(r.monitor).right - MonitorRect(r.monitor).left,
          nHeight |-> MonitorRect(r.monitor).bottom - MonitorRect(r.monitor).top]
    ELSE [a EXCEPT !.dwStyle = (@ \ {"WS_CAPTION", "WS_SYSMENU", "WS_THICKFRAME",
                                     "WS_MINIMIZEBOX", "WS_MAXIMIZEBOX"})
                                \cup {"WS_POPUP", "WS_VISIBLE"},
                   !.dwExStyle = @ \ {"WS_EX_WINDOWEDGE", "WS_EX_CLIENTEDGE",
                                      "WS_EX_DLGMODALFRAME"}]

\* the arguments the original SetWindowLong is called with
hooked_SetWindowLong(debug, c, a) ==
    IF ~debug /\ is_borderless_fullscreen_enabled(c) /\ a.nIndex = "GWL_STYLE"
    THEN [a EXCEPT !.dwNewLong = (@ \ {"WS_CAPTION", "WS_SYSMENU", "WS_THICKFRAME",
                                       "WS_MINIMIZEBOX", "WS_MAXIMIZEBOX"})
                                  \cup {"WS_POPUP", "WS_VISIBLE"}]
    ELSE a

\* mutant: the flags of the call are left as the caller set them
hooked_SetWindowPos_flags_kept(debug, c, r, a) ==
    IF debug \/ ~is_borderless_fullscreen_enabled(c) THEN a
    ELSE IF {"SWP_NOSIZE", "SWP_NOMOVE"} \subseteq a.uFlags THEN a
    ELSE IF r.ret
    THEN [X |-> MonitorRect(r.monitor).left, Y |-> MonitorRect(r.monitor).top,
          cx |-> MonitorRect(r.monitor).right - MonitorRect(r.monitor).left,
          cy |-> MonitorRect(r.monitor).bottom - MonitorRect(r.monitor).top,
          uFlags |-> a.uFlags]
    ELSE a

\* the arguments the original SetWindowPos is called with
hooked_SetWindowPos(debug, c, r, a) ==
    IF debug \/ ~is_borderless_fullscreen_enabled(c) THEN a
    ELSE IF {"SWP_NOSIZE", "SWP_NOMOVE"} \subseteq a.uFlags THEN a
    ELSE IF r.ret
    THEN [X |-> MonitorRect(r.monitor).left, Y |-> MonitorRect(r.monitor).top,
          cx |-> MonitorRect(r.monitor).right - MonitorRect(r.monitor).left,
          cy |-> MonitorRect(r.monitor).bottom - MonitorRect(r.monitor).top,
          uFlags |-> a.uFlags \ {"SWP_NOMOVE", "SWP_NOSIZE"}]
    ELSE a

\* whether the original AdjustWindowRect is called, and the result of the hook
hooked_AdjustWindowRect(c, orig) ==
    IF is_borderless_fullscreen_enabled(c)
    THEN [forwarded |-> FALSE, ret |-> TRUE]
    ELSE [forwarded |-> TRUE, ret |-> orig]

CreateWindowEx(fn, debug, a, monitors, info_ok, orig) ==
    /\ Idle /\ fn \in hook_handles
    /\ debug => sequence_counter_ < MaxSequence
    /\ sequence_counter_' = IF debug THEN sequence_counter_ + 1 ELSE sequence_counter_
    /\ returned' = IF debug THEN Append(returned, sequence_counter_ + 1) ELSE returned
    /\ last' = [NoCall EXCEPT
                   !.op = fn, !.flag = debug, !.args_in = a, !.monitors = monitors,
                   !.monitor = get_target_monitor_rect(config, monitors, info_ok).monitor,
                   !.hit = get_target_monitor_rect(config, monitors, info_ok).ret,
                   !.args_out = hooked_CreateWindowEx(debug, config,
                                    get_target_monitor_rect(config, monitors, info_ok), a),
                   !.forwarded = TRUE, !.orig = orig, !.ret = orig]
    /\ UNCHANGED <<config, pending_swapchains_, swapchain_data_, live, addonVars,
                   mutex_owner, thread_script, requested>>

SetWindowLong(fn, debug, a, orig) ==
    /\ Idle /\ fn \in hook_handles
    /\ debug => sequence_counter_ < MaxSequence
    /\ sequence_counter_' = IF debug THEN sequence_counter_ + 1 ELSE sequence_counter_
    /\ returned' = IF debug THEN Append(returned, sequence_counter_ + 1) ELSE returned
    /\ last' = [NoCall EXCEPT
                   !.op = fn, !.flag = debug, !.args_in = a,
                   !.args_out = hooked_SetWindowLong(debug, config, a),
                   !.forwarded = TRUE, !.orig = orig, !.ret = orig]
    /\ UNCHANGED <<config, pending_swapchains_, swapchain_data_, live, addonVars,
                   mutex_owner, thread_script, requested>>

SetWindowPos(debug, a, monitors, info_ok, orig) ==
    /\ Idle /\ "SetWindowPos" \in hook_handles
    /\ debug => sequence_counter_ < MaxSequence
    /\ sequence_counter_' = IF debug THEN sequence_counter_ + 1 ELSE sequence_counter_
    /\ returned' = IF debug THEN Append(returned, sequence_counter_ + 1) ELSE returned
    /\ last' = [NoCall EXCEPT
                   !.op = "SetWindowPos", !.flag = debug, !.args_in = a,
                   !.monitors = monitors,
                   !.monitor = get_target_monitor_rect(config, monitors, info_ok).monitor,
                   !.hit = get_target_monitor_rect(config, monitors, info_ok).ret,
                   !.args_out = hooked_SetWindowPos(debug, config,
                                    get_target_monitor_rect(config, monitors, info_ok), a),
                   !.forwarded = TRUE, !.orig = orig, !.ret = orig]
    /\ UNCHANGED <<config, pending_swapchains_, swapchain_data_, live, addonVars,
                   mutex_owner, thread_script, requested>>

AdjustWindowRect(fn, debug, a, orig) ==
    /\ Idle /\ fn \in hook_handles
    /\ debug => sequence_counter_ < MaxSequence
    /\ sequence_counter_' = IF debug THEN sequence_counter_ + 1 ELSE sequence_counter_
    /\ returned' = IF debug THEN Append(returned, sequence_counter_ + 1) ELSE returned
    /\ last' = [NoCall EXCEPT
                   !.op = fn, !.flag = debug, !.args_in = a, !.args_out = a,
                   !.forwarded = hooked_AdjustWindowRect(config, orig).forwarded,
                   !.orig = orig,
                   !.ret = hooked_AdjustWindowRect(config, orig).ret]
    /\ UNCHANGED <<config, pending_swapchains_, swapchain_data_, live, addonVars,
                   mutex_owner, thread_script, requested>>

\* the user edits FullscreenMode in the host's configuration file
SetFullscreenMode(v) ==
    /\ Idle
    /\ config_store.FullscreenMode # <<v>>
    /\ config_store' = [config_store EXCEPT !.FullscreenMode = <<v>>]
    /\ UNCHANGED <<config, pending_swapchains_, swapchain_data_, live, last, addon_instance_count_,
                   hooks_installed_, hook_handles, dll_pc, host_registered, dll_log,
                   mutex_owner, thread_script, requested, sequence_counter_, returned>>

(***************************************************************************)
(* The swapchain handlers, in a process whose addon is loaded.             *)
(***************************************************************************)
Init ==
    /\ config \in {c \in ConfigStates : (c.force_width_ = 0) <=> (c.force_height_ = 0)}
    /\ pending_swapchains_ = EmptyMap
    /\ swapchain_data_ = EmptyMap
    /\ live = {}
    /\ last = NoCall
    /\ mutex_owner = [m \in {"swapchain_mutex_", "pending_mutex_", "sequence_mutex_"} |-> 0]
    /\ thread_script = [th \in 1..MaxThreads |-> <<>>]
    /\ requested = EmptyMap
    /\ sequence_counter_ = 0
    /\ returned = <<>>
    /\ config_store = StoreFor(config)
    /\ addon_instance_count_ = 1
    /\ hooks_installed_ = is_borderless_fullscreen_enabled(config)
    /\ hook_handles = IF is_borderless_fullscreen_enabled(config) THEN HookNames ELSE {}
    /\ dll_pc = "loaded"
    /\ host_registered = {"addon", "events", "overlay"}
    /\ dll_log = <<"register_addon", "load", "install_hooks", "register_events",
                   "register_overlay">>

\* The depth-stencil view bound is a view of a resource that is no back
\* buffer; the value a read past the end of proxy_srvs yields is zero or a
\* value that is no handle of the device.
Next ==
    \/ \E desc \in Descs, hwnd \in Windows \cup {NullHandle} :
          CreateSwapchain(desc, hwnd) /\ UNCHANGED requested
    \/ \E s \in Swapchains, is_resize \in BOOLEAN :
          \E fail \in InitFailures(s), api \in InitApis(is_resize) :
              InitSwapchain(s, is_resize, fail, api)
    \/ \E s \in Swapchains, is_resize \in BOOLEAN : DestroySwapchain(s, is_resize)
    \/ \E s \in Swapchains, fullscreen \in BOOLEAN : SetFullscreenState(s, fullscreen)
    \/ \E dev \in Devices, rtvs \in RtvArrays : BindRenderTargets(dev, rtvs, AppView(BackBuffer(0, 1)))
    \/ \E dev \in Devices, vps \in ViewportArrays : BindViewports(dev, vps)
    \/ \E dev \in Devices, rects \in RectArrays : BindScissorRects(dev, rects)
    \/ \E s \in Swapchains, cmd_ok \in BOOLEAN, rtv_ok \in BOOLEAN :
          \E index \in 0..(BackBufferCount(s) - 1), wild \in {NullHandle, AppView(BackBuffer(0, 2))} :
              Present(s, index, cmd_ok, rtv_ok, wild)
    \/ HostReturn

Spec == Init /\ [][Next]_vars

(***************************************************************************)
(* WindowHooks on its own: any sequence of install() and uninstall()       *)
(* calls, as several addon instances in one process make them.             *)
(***************************************************************************)
InitHooks ==
    /\ config \in {[c EXCEPT !.target_monitor_ = k] :
                       c \in {d \in ConfigStates : (d.force_width_ = 0) <=> (d.force_height_ = 0)},
                       k \in (0 - 1)..MaxMonitors}
    /\ config_store = StoreFor(config)
    /\ pending_swapchains_ = EmptyMap
    /\ swapchain_data_ = EmptyMap
    /\ live = {}
    /\ last = NoCall
    /\ mutex_owner = [m \in {"swapchain_mutex_", "pending_mutex_", "sequence_mutex_"} |-> 0]
    /\ thread_script = [th \in 1..MaxThreads |-> <<>>]
    /\ requested = EmptyMap
    /\ sequence_counter_ = 0
    /\ returned = <<>>
    /\ addon_instance_count_ = 0
    /\ hooks_installed_ = FALSE
    /\ hook_handles = {}
    /\ dll_pc = "load"
    /\ host_registered = {"addon"}
    /\ dll_log = <<"register_addon">>

NextHooks ==
    \/ \E attached \in AttachOutcomes : Install(attached)
    \/ Uninstall
    \/ \E monitors \in MonitorLayouts, info_ok \in BOOLEAN :
          GetTargetMonitorRect(monitors, info_ok)
    \/ HostReturn

SpecHooks == InitHooks /\ [][NextHooks]_vars

(***************************************************************************)
(* Config::load on its own, against any content of the store.              *)
(***************************************************************************)
InitConfig ==
    /\ config = FreshConfig
    /\ config_store \in Stores
    /\ pending_swapchains_ = EmptyMap
    /\ swapchain_data_ = EmptyMap
    /\ live = {}
    /\ last = NoCall
    /\ mutex_owner = [m \in {"swapchain_mutex_", "pending_mutex_", "sequence_mutex_"} |-> 0]
    /\ thread_script = [th \in 1..MaxThreads |-> <<>>]
    /\ requested = EmptyMap
    /\ sequence_counter_ = 0
    /\ returned = <<>>
    /\ addon_instance_count_ = 0
    /\ hooks_installed_ = FALSE
    /\ hook_handles = {}
    /\ dll_pc = "load"
    /\ host_registered = {"addon"}
    /\ dll_log = <<"register_addon">>

\* the user edits ForceSwapchainResolution in the host's configuration file
SetResolution(text) ==
    /\ Idle
    /\ config_store.ForceSwapchainResolution \notin {<<>>, <<text>>}
    /\ config_store' = [config_store EXCEPT !.ForceSwapchainResolution = <<text>>]
    /\ UNCHANGED <<config, pending_swapchains_, swapchain_data_, live, last, addon_instance_count_,
                   hooks_installed_, hook_handles, dll_pc, host_registered, dll_log,
                   mutex_owner, thread_script, requested, sequence_counter_, returned>>

NextConfig ==
    \/ Load
    \/ \E text \in ResolutionTexts : SetResolution(text)
    \/ HostReturn

SpecConfig == InitConfig /\ [][NextConfig]_vars

(***************************************************************************)
(* The life of the addon in a process: attach, swapchains initialised      *)
(* while it is loaded, detach.                                             *)
(***************************************************************************)
InitLifecycle ==
    /\ config = FreshConfig
    /\ config_store \in
           {st \in Stores :
               /\ st.ForceSwapchainResolution \in {<<>>, <<<<"0", "x", "0">>>>}
               /\ st.FullscreenMode \in {<<>>, <<1>>}
               /\ st.SwapchainScalingFilter = <<>>
               /\ st.BlockFullscreenChanges = <<>>
               /\ st.TargetMonitor = <<>>}
    /\ pending_swapchains_ = EmptyMap
    /\ swapchain_data_ = EmptyMap
    /\ live = {}
    /\ last = NoCall
    /\ mutex_owner = [m \in {"swapchain_mutex_", "pending_mutex_", "sequence_mutex_"} |-> 0]
    /\ thread_script = [th \in 1..MaxThreads |-> <<>>]
    /\ requested = EmptyMap
    /\ sequence_counter_ = 0
    /\ returned = <<>>
    /\ addon_instance_count_ = 0
    /\ hooks_installed_ = FALSE
    /\ hook_handles = {}
    /\ dll_pc = "unloaded"
    /\ host_registered = {}
    /\ dll_log = <<>>

NextLifecycle ==
    \/ \E ok \in BOOLEAN : RegisterAddon(ok)
    \/ LoadConfig
    \/ \E attached \in AttachOutcomes : InstallHooks(attached)
    \/ RegisterEvents
    \/ RegisterOverlay
    \/ /\ dll_pc = "loaded"
       /\ \E s \in Swapchains : \E fail \in InitFailures(s) :
              InitSwapchain(s, FALSE, fail, "d3d11")
    \/ HostReturn
    \/ Detach
    \/ UnregisterOverlay
    \/ UninstallHooks
    \/ \E order \in IterationOrders(swapchain_data_) : CleanupAll(order)
    \/ UnregisterEvents
    \/ UnregisterAddon

SpecLifecycle == InitLifecycle /\ [][NextLifecycle]_vars

(***************************************************************************)
(* DllMain with the host's other threads: the host calls the registered    *)
(* event callbacks while the addon is loaded and, from other threads,      *)
(* while the detach stands between cleanup_all() and the unregistration of *)
(* the callbacks; each handler runs under the locks it takes.              *)
(***************************************************************************)
NextDetach ==
    \/ NextLifecycle
    \/ /\ "events" \in host_registered
       /\ dll_pc \in {"loaded", "unregister_events"}
       /\ \/ \E hwnd \in Windows :
                /\ CreateSwapchain([width |-> DefaultForceWidth, height |-> FallbackHeight,
                                    fullscreen_state |-> FALSE, present_flags |-> 0], hwnd)
                /\ UNCHANGED requested
          \/ \E s \in Swapchains : \E fail \in InitFailures(s) :
                InitSwapchain(s, TRUE, fail, "d3d11")
          \/ \E s \in Swapchains : \E fail \in InitFailures(s) :
                InitSwapchain(s, FALSE, fail, "d3d11")
          \/ \E s \in Swapchains, is_resize \in BOOLEAN : DestroySwapchain(s, is_resize)

SpecDetach == InitLifecycle /\ [][NextDetach]_vars

(***************************************************************************)
(* The overlay callback on its threads, among initializations, resizes and *)
(* destructions of the windowed swapchains, which run while they hold      *)
(* swapchain_mutex_.                                                       *)
(***************************************************************************)
NextOverlay ==
    \/ \E th \in 1..MaxThreads, order \in IterationOrders(swapchain_data_) : Overlay(th, order)
    \/ \E th \in 1..MaxThreads : Lock(th)
    \/ \E th \in 1..MaxThreads : Unlock(th)
    \/ /\ mutex_owner["swapchain_mutex_"] = 0
       /\ \E s \in WindowedSwapchains, is_resize \in BOOLEAN :
              InitSwapchain(s, is_resize, 0, "d3d11")
    \/ /\ mutex_owner["swapchain_mutex_"] = 0
       /\ \E s \in WindowedSwapchains : DestroySwapchain(s, FALSE)
    \/ HostReturn

SpecOverlay == Init /\ [][NextOverlay]_vars

(***************************************************************************)
(* The application calling the hooked window functions, between attaches   *)
(* of the addon that load the configuration again and install the hooks.   *)
(***************************************************************************)
NextWindowCalls ==
    \/ \E attached \in {HookNames, {"SetWindowPos", "AdjustWindowRect"}} : Install(attached)
    \/ Load
    \/ \E v \in 0..2 : SetFullscreenMode(v)
    \/ \E fn \in {"CreateWindowExA", "CreateWindowExW"}, debug, info_ok, orig \in BOOLEAN,
          monitors \in {<<1>>, <<1, 2>>} :
          \E dwStyle \in {{"WS_CAPTION", "WS_THICKFRAME"}, {"WS_POPUP"}} :
              CreateWindowEx(fn, debug,
                             [dwStyle |-> dwStyle, dwExStyle |-> {"WS_EX_WINDOWEDGE", "WS_EX_TOPMOST"},
                              X |-> 100, Y |-> 50, nWidth |-> 800, nHeight |-> 600],
                             monitors, info_ok, orig)
    \/ \E fn \in {"SetWindowLongA", "SetWindowLongW", "SetWindowLongPtrA",
                   "SetWindowLongPtrW"}, debug, orig \in BOOLEAN,
          nIndex \in {"GWL_STYLE", "GWL_EXSTYLE"} :
          SetWindowLong(fn, debug,
                        [nIndex |-> nIndex, dwNewLong |-> {"WS_CAPTION", "WS_CHILD"}], orig)
    \/ \E debug, info_ok, orig \in BOOLEAN, monitors \in {<<1>>, <<1, 2>>},
          uFlags \in SUBSET {"SWP_NOSIZE", "SWP_NOMOVE", "SWP_NOZORDER"} :
          SetWindowPos(debug, [X |-> 100, Y |-> 50, cx |-> 800, cy |-> 600, uFlags |-> uFlags],
                       monitors, info_ok, orig)
    \/ \E fn \in {"AdjustWindowRect", "AdjustWindowRectEx"}, debug, orig \in BOOLEAN :
          AdjustWindowRect(fn, debug,
                           [left |-> 0, top |-> 0, right |-> 800, bottom |-> 600], orig)
    \/ HostReturn

\* the addon is attached with both sizes forced and a target monitor of 0 or 1
InitWindowCalls ==
    /\ InitHooks
    /\ config.force_width_ # 0 /\ ~config.block_fullscreen_changes_
    /\ config.target_monitor_ \in {0, 1}

SpecWindowCalls == InitWindowCalls /\ [][NextWindowCalls]_vars

(***************************************************************************)
(* The DebugLogger with the threads of the application calling it in any   *)
(* interleaving.                                                           *)
(***************************************************************************)
NextLogger ==
    \/ \E th \in 1..MaxThreads : GetNextSequence(th)
    \/ \E th \in 1..MaxThreads : Lock(th)
    \/ \E th \in 1..MaxThreads : Unlock(th)
    \/ \E seen \in 0..MaxSequence : FormatEventHeader(seen)
    \/ HostReturn

SpecLogger == Init /\ [][NextLogger]_vars

(***************************************************************************)
(* The locking of SwapchainManager on its own: threads of the host enter   *)
(* the entry points in any interleaving.                                   *)
(***************************************************************************)
NextLocks ==
    \/ \E th \in 1..MaxThreads, fn \in DOMAIN LockScripts : Enter(th, fn)
    \/ \E th \in 1..MaxThreads : Lock(th)
    \/ \E th \in 1..MaxThreads : Unlock(th)

SpecLocks == Init /\ [][NextLocks]_vars

(***************************************************************************)
(* Creation, initialization, resize and destruction of the swapchains of   *)
(* two windows, with the application asking for any of three sizes; the    *)
(* size asked for last is remembered per window.  An initialization        *)
(* succeeds or fails at its first creation call.                           *)
(***************************************************************************)
NextRequests ==
    \/ \E sz \in RequestSizes \cup {<<FallbackWidth, DefaultForceHeight>>}, hwnd \in Windows :
          /\ CreateSwapchain([width |-> sz[1], height |-> sz[2],
                              fullscreen_state |-> FALSE, present_flags |-> 0], hwnd)
          /\ requested' = MapPut(requested, hwnd, sz)
    \/ \E s \in WindowedSwapchains, is_resize \in BOOLEAN :
          \E fail \in InitFailures(s) \cap {0, 1} : InitSwapchain(s, is_resize, fail, "d3d11")
    \/ \E s \in WindowedSwapchains, is_resize \in BOOLEAN : DestroySwapchain(s, is_resize)
    \/ HostReturn

SpecRequests == Init /\ [][NextRequests]_vars
(***************************************************************************)
(* Properties.                                                             *)
(***************************************************************************)
ForcedSize(c) == <<c.force_width_, c.force_height_>>
SizeOf(desc) == <<desc.width, desc.height>>

\* initialize_swapchain ran in the call just made (the handler passed its
\* override-enabled and window-handle checks)
Initialized(l) == l.op = "init_swapchain" /\ l.dev # NullHandle

CreateFns == {"create_resource", "create_rtv", "create_srv",
              "create_pipeline_layout", "create_pipeline", "create_sampler"}
DestroyFns == {"destroy_resource", "destroy_resource_view", "destroy_pipeline",
               "destroy_pipeline_layout", "destroy_sampler"}
CreateIndexes(log) == {i \in DOMAIN log : log[i][1] \in CreateFns}
DestroyIndexes(log) == {i \in DOMAIN log : log[i][1] \in DestroyFns}
CreatedIn(log) == {log[i][2] : i \in CreateIndexes(log)} \ {NullHandle}
DestroyedIn(log) == {log[i][2] : i \in DestroyIndexes(log)}
AllRecordHandles(table) == UNION {HandlesOf(table[t]) : t \in DOMAIN table}

\* C1: with resolution override enabled, a create_swapchain request for a
\* window whose size differs from the forced size is rewritten to the forced
\* size, returns true and leaves the pending entry with the requested size
\* for that window; an initialize_swapchain for a swapchain on a window with
\* a pending entry erases exactly that entry, and the record's original size
\* and the size of every proxy texture it creates are the entry's.
C1_CreateStep ==
    (/\ last'.op = "create_swapchain"
     /\ is_override_enabled(config)
     /\ SizeOf(last'.desc_in) # ForcedSize(config)
     /\ last'.hwnd # NullHandle)
    => /\ SizeOf(last'.desc_out) = ForcedSize(config)
       /\ last'.ret
       /\ DOMAIN pending_swapchains_' = DOMAIN pending_swapchains_ \cup {last'.hwnd}
       /\ pending_swapchains_'[last'.hwnd] =
              [original_width |-> last'.desc_in.width,
               original_height |-> last'.desc_in.height]
       /\ \A k \in DOMAIN pending_swapchains_ \ {last'.hwnd} :
              pending_swapchains_'[k] = pending_swapchains_[k]

C1_InitStep ==
    (/\ Initialized(last')
     /\ last'.hwnd \in DOMAIN pending_swapchains_)
    => LET entry == pending_swapchains_[last'.hwnd]
           data == swapchain_data_'[last'.sc]
       IN /\ last'.hit
          /\ DOMAIN pending_swapchains_' = DOMAIN pending_swapchains_ \ {last'.hwnd}
          /\ \A k \in DOMAIN pending_swapchains_' :
                 pending_swapchains_'[k] = pending_swapchains_[k]
          /\ data.original_width = entry.original_width
          /\ data.original_height = entry.original_height
          /\ \A i \in DOMAIN last'.log :
                 last'.log[i][1] = "create_resource"
                 => /\ last'.log[i][3] = entry.original_width
                    /\ last'.log[i][4] = entry.original_height

C1_RoundTrip == [][C1_CreateStep /\ C1_InitStep]_vars

\* C1 witness: an initialize_swapchain has just consumed a pending entry of
\* a size other than the fallback and built every proxy texture
C1_Witness ==
    /\ Initialized(last) /\ last.hit /\ last.ret
    /\ last.hwnd \notin DOMAIN pending_swapchains_
    /\ swapchain_data_[last.sc].original_width = DefaultForceWidth
    /\ swapchain_data_[last.sc].original_height = FallbackHeight
    /\ Len(swapchain_data_[last.sc].proxy_textures) = MaxBackBuffers

\* The arbitration table: the <<mode, request is to fullscreen,
\* block_fullscreen_changes>> combinations that are blocked
BlockedTransitions ==
    {<<"Exclusive", FALSE, FALSE>>, <<"Exclusive", FALSE, TRUE>>,
     <<"Borderless", TRUE, FALSE>>, <<"Borderless", TRUE, TRUE>>,
     <<"Unchanged", FALSE, TRUE>>, <<"Unchanged", TRUE, TRUE>>}

C3_InactiveAfterFailure ==
    (Initialized(last) /\ ~last.ret)
    => ~swapchain_data_[last.sc].override_active

\* C4: after an initialize_swapchain that failed in a creation step, no
\* object created in that call is live, the record holds no handle, and the
\* live objects are exactly those the records hold.
C4_NoLeakOnFailure ==
    (Initialized(last) /\ ~last.ret)
    => /\ CreatedIn(last.log) \cap live = {}
       /\ HandlesOf(swapchain_data_[last.sc]) = {}
       /\ live = AllRecordHandles(swapchain_data_)

\* C4 witness: the sampler creation failed after every other object of a
\* swapchain with MaxBackBuffers back buffers had been created
C4_Witness ==
    /\ Initialized(last) /\ ~last.ret
    /\ Cardinality(CreatedIn(last.log)) = 3 * MaxBackBuffers + 2
    /\ \E i \in DOMAIN last.log : last.log[i] = <<"create_sampler", NullHandle, 0, 0>>

\* C5: a destroy_swapchain with is_resize=true changes neither table nor any
\* record nor any GPU object; with is_resize=false it destroys exactly the
\* objects of the record of that native handle and erases the entry, and
\* does nothing when there is no record.
C5_DestroyStep ==
    last'.op = "destroy_swapchain"
    => IF last'.flag \/ last'.sc \notin DOMAIN swapchain_data_
       THEN /\ UNCHANGED <<pending_swapchains_, swapchain_data_, live>>
            /\ last'.log = <<>>
       ELSE /\ DOMAIN swapchain_data_' = DOMAIN swapchain_data_ \ {last'.sc}
            /\ \A t \in DOMAIN swapchain_data_' : swapchain_data_'[t] = swapchain_data_[t]
            /\ DestroyedIn(last'.log) = HandlesOf(swapchain_data_[last'.sc])
            /\ live' = live \ HandlesOf(swapchain_data_[last'.sc])
            /\ UNCHANGED pending_swapchains_

C5_DestroyVsResize == [][C5_DestroyStep]_vars

\* C5 witness: a resize-driven destroy has just left a fully built record in
\* the table
C5_Witness ==
    /\ last.op = "destroy_swapchain" /\ last.flag
    /\ last.sc \in DOMAIN swapchain_data_
    /\ Cardinality(HandlesOf(swapchain_data_[last.sc])) = 3 * MaxBackBuffers + 3
    /\ HandlesOf(swapchain_data_[last.sc]) \subseteq live

\* C6: when init_swapchain runs with is_resize=true for a tracked native
\* handle, every object of the record's previous generation is destroyed
\* before the first creation call, and afterwards the record holds only
\* objects created in this call.
C6_ResizeStep ==
    (/\ Initialized(last') /\ last'.flag
     /\ last'.sc \in DOMAIN swapchain_data_)
    => LET old == HandlesOf(swapchain_data_[last'.sc])
           log == last'.log
       IN /\ \A h \in old :
                 \E i \in DestroyIndexes(log) :
                     /\ log[i][2] = h
                     /\ \A j \in CreateIndexes(log) : i < j
          /\ HandlesOf(swapchain_data_'[last'.sc]) \subseteq CreatedIn(log)

C6_ResizeRebuild == [][C6_ResizeStep]_vars

\* C6 witness: a resize has replaced a fully built generation by another
C6_Witness ==
    /\ Initialized(last) /\ last.flag /\ last.tracked /\ last.ret
    /\ Cardinality(DestroyIndexes(last.log)) = 3 * MaxBackBuffers + 3
    /\ Cardinality(CreateIndexes(last.log)) = 3 * MaxBackBuffers + 3

\* C7 (as claimed): for every tracked record with an active override, a
\* bind_render_targets on its device is reissued with every view of one of
\* its back buffers replaced, at the same position, by the proxy view of the
\* same index and with the depth-stencil view unchanged; an event in which
\* no view resolves to a tracked back buffer is not reissued.
TrackedBackBuffer(table, dev, res) ==
    \E t \in DOMAIN table :
        /\ table[t].override_active /\ table[t].device_ptr = dev
        /\ \E j \in DOMAIN table[t].actual_back_buffers :
               table[t].actual_back_buffers[j] = res

C7_Redirection ==
    last.op = "bind_render_targets"
    => /\ \A t \in DOMAIN swapchain_data_ :
            \A i \in DOMAIN last.rtvs_in :
                \A j \in DOMAIN swapchain_data_[t].actual_back_buffers :
                    (/\ swapchain_data_[t].override_active
                     /\ swapchain_data_[t].device_ptr = last.dev
                     /\ last.rtvs_in[i] # NullHandle
                     /\ swapchain_data_[t].actual_back_buffers[j]
                            = ResourceFromView(last.rtvs_in[i]))
                    => /\ last.rebind
                       /\ last.rtvs_out[i] = swapchain_data_[t].proxy_rtvs[j]
                       /\ last.dsv_out = last.dsv_in
       /\ (\A i \in DOMAIN last.rtvs_in :
               ~TrackedBackBuffer(swapchain_data_, last.dev,
                                  ResourceFromView(last.rtvs_in[i])))
          => ~last.rebind

\* ForceSwapchainResolution is 0x0
OverrideDisabled == config.force_width_ = 0 /\ config.force_height_ = 0

\* C8 (as claimed): with resolution override disabled, handle_create_swapchain
\* changes no field of the description and no pending entry, record or
\* object ever exists.
C8_DisabledNoField ==
    OverrideDisabled
    => /\ last.op = "create_swapchain" => last.desc_out = last.desc_in
       /\ pending_swapchains_ = EmptyMap
       /\ swapchain_data_ = EmptyMap
       /\ live = {}

\* C8 (amended): with resolution override disabled, handle_create_swapchain
\* leaves width and height as requested, changes nothing at all and returns
\* false under FullscreenMode Unchanged, and no pending entry, record or
\* object is ever created by any create or init event.
C8_DisabledNoResolution ==
    OverrideDisabled
    => /\ last.op = "create_swapchain"
          => /\ SizeOf(last.desc_out) = SizeOf(last.desc_in)
             /\ config.fullscreen_mode_ = "Unchanged"
                => (last.desc_out = last.desc_in /\ ~last.ret)
       /\ last.op = "init_swapchain" => CreateIndexes(last.log) = {}
       /\ pending_swapchains_ = EmptyMap
       /\ swapchain_data_ = EmptyMap
       /\ live = {}

\* C8 witness: override disabled, Exclusive mode: a request of a size other
\* than the default forced size kept its size while its present flags changed
C8_Witness ==
    /\ OverrideDisabled
    /\ last.op = "create_swapchain"
    /\ config.fullscreen_mode_ = "Exclusive"
    /\ last.desc_in.height = FallbackHeight
    /\ last.desc_out.height = FallbackHeight
    /\ last.desc_out.present_flags # last.desc_in.present_flags

\* C9 (as claimed): a create_swapchain request whose size equals the forced
\* size leaves the description unchanged, returns false and creates no
\* pending entry.
C9_EqualSizeUntouched ==
    [][(last'.op = "create_swapchain" /\ SizeOf(last'.desc_in) = ForcedSize(config))
       => /\ last'.desc_out = last'.desc_in
          /\ ~last'.ret
          /\ UNCHANGED pending_swapchains_]_vars

\* C9 (amended): a create_swapchain request whose size equals the forced
\* size keeps its width and height and creates no pending entry; it returns
\* true exactly when the fullscreen policy changed fullscreen_state or
\* present_flags, and under FullscreenMode Unchanged the description is
\* unchanged and the result is false.
C9_EqualSizeKeepsSize ==
    [][(last'.op = "create_swapchain" /\ SizeOf(last'.desc_in) = ForcedSize(config))
       => /\ SizeOf(last'.desc_out) = SizeOf(last'.desc_in)
          /\ UNCHANGED pending_swapchains_
          /\ last'.ret <=> (last'.desc_out # last'.desc_in)
          /\ config.fullscreen_mode_ = "Unchanged"
             => (last'.desc_out = last'.desc_in /\ ~last'.ret)]_vars

\* C9 witness: a request of the forced size for a window has returned false
\* under Unchanged while an earlier pending entry of that window stayed
C9_Witness ==
    /\ last.op = "create_swapchain"
    /\ ~OverrideDisabled
    /\ SizeOf(last.desc_in) = ForcedSize(config)
    /\ config.fullscreen_mode_ = "Unchanged"
    /\ last.hwnd # NullHandle
    /\ ~last.ret
    /\ last.hwnd \in DOMAIN pending_swapchains_

\* C10 (as claimed): a create_swapchain request without a window handle is
\* left untouched by the resolution override: width and height are not
\* rewritten and no pending entry is stored.
C10_NullWindowUntouched ==
    [][(last'.op = "create_swapchain" /\ last'.hwnd = NullHandle)
       => /\ SizeOf(last'.desc_out) = SizeOf(last'.desc_in)
          /\ UNCHANGED pending_swapchains_]_vars

\* C11: handle_create_swapchain returns true exactly when the description
\* it returns differs from the one it was given, in every configuration.
C11_ReturnIffModified ==
    last.op = "create_swapchain" => (last.ret <=> (last.desc_out # last.desc_in))

\* C11 witness: under Borderless with the override disabled a windowed
\* request carrying the mode-switch bit came back changed, with result true
C11_Witness ==
    /\ last.op = "create_swapchain"
    /\ OverrideDisabled
    /\ config.fullscreen_mode_ = "Borderless"
    /\ ~last.desc_in.fullscreen_state
    /\ last.desc_in.present_flags = 3
    /\ last.desc_out.present_flags = 1
    /\ last.ret

\* the bits of present_flags other than the allow-mode-switch bit
OtherFlagBits(flags) ==
    flags - ((flags \div DXGI_SWAP_CHAIN_FLAG_ALLOW_MODE_SWITCH) % 2)
                * DXGI_SWAP_CHAIN_FLAG_ALLOW_MODE_SWITCH
ModeSwitchBit(flags) == (flags \div DXGI_SWAP_CHAIN_FLAG_ALLOW_MODE_SWITCH) % 2

FullViewport(vp, w, h) ==
    /\ 10 * vp.width >= 9 * w * FloatOne
    /\ 10 * vp.height >= 9 * h * FloatOne
FullRect(r, w, h) ==
    /\ 10 * (r.right - r.left) >= 9 * w
    /\ 10 * (r.bottom - r.top) >= 9 * h

\* the bind handler looked at the record of last.sc
OnRecord(op) == last.op = op /\ last.sc # NullHandle /\ last.sc \in DOMAIN swapchain_data_

\* C12: with an active record of actual size (W,H), handle_bind_viewports
\* rescales entry i exactly when width_i >= 0.9 W and height_i >= 0.9 H,
\* passes the other entries on unchanged, and reissues the bind exactly when
\* some entry was rescaled.
C12_ViewportThreshold ==
    (OnRecord("bind_viewports") /\ last.vps_in # <<>>)
    => LET d == swapchain_data_[last.sc]
       IN /\ last.rebind
             <=> \E i \in DOMAIN last.vps_in :
                     FullViewport(last.vps_in[i], d.actual_width, d.actual_height)
          /\ last.rebind
             => /\ DOMAIN last.vps_out = DOMAIN last.vps_in
                /\ \A i \in DOMAIN last.vps_in :
                     (last.vps_out[i] # last.vps_in[i])
                     <=> FullViewport(last.vps_in[i], d.actual_width, d.actual_height)

\* C12 witness: of two viewports bound with actual width 3840, the one of
\* width 3456 was rescaled and the one of width 3455 was passed on unchanged
C12_Witness ==
    /\ OnRecord("bind_viewports")
    /\ swapchain_data_[last.sc].actual_width = DefaultForceWidth
    /\ Len(last.vps_in) = 2
    /\ last.vps_in[1].width = 3456 * FloatOne
    /\ last.vps_in[2].width = 3455 * FloatOne
    /\ last.rebind
    /\ last.vps_out[1].width # last.vps_in[1].width
    /\ last.vps_out[2] = last.vps_in[2]

\* the integer o is the ratio n/d times the integer v, truncated toward zero
TruncatedRatio(o, v, n, d) ==
    IF v >= 0 THEN o >= 0 /\ o * d <= v * n /\ v * n < (o + 1) * d
    ELSE o <= 0 /\ (0 - o) * d <= (0 - v) * n /\ (0 - v) * n < (1 - o) * d

\* C13: a full-surface viewport or scissor rectangle is rescaled coordinate
\* by coordinate with the per-axis ratio original/actual; for original
\* 1920x1080 and actual 3840x2160 the viewport {0,0,3840,2160} becomes
\* {0,0,1920,1080}; each scissor corner is the scaled value truncated toward
\* zero.
C13_Rescale ==
    /\ (OnRecord("bind_viewports") /\ last.rebind)
       => LET d == swapchain_data_[last.sc]
          IN \A i \in DOMAIN last.vps_in :
               FullViewport(last.vps_in[i], d.actual_width, d.actual_height)
               => /\ last.vps_out[i].x * d.actual_width = last.vps_in[i].x * d.original_width
                  /\ last.vps_out[i].width * d.actual_width
                         = last.vps_in[i].width * d.original_width
                  /\ last.vps_out[i].y * d.actual_height = last.vps_in[i].y * d.original_height
                  /\ last.vps_out[i].height * d.actual_height
                         = last.vps_in[i].height * d.original_height
                  /\ (/\ d.original_width = 1920 /\ d.original_height = 1080
                      /\ d.actual_width = 3840 /\ d.actual_height = 2160
                      /\ last.vps_in[i] = [x |-> 0, y |-> 0, width |-> 3840 * FloatOne,
                                           height |-> 2160 * FloatOne])
                     => last.vps_out[i] = [x |-> 0, y |-> 0, width |-> 1920 * FloatOne,
                                           height |-> 1080 * FloatOne]
    /\ (OnRecord("bind_scissor_rects") /\ last.rebind)
       => LET d == swapchain_data_[last.sc]
          IN \A i \in DOMAIN last.rects_in :
               FullRect(last.rects_in[i], d.actual_width, d.actual_height)
               => /\ TruncatedRatio(last.rects_out[i].left, last.rects_in[i].left,
                                    d.original_width, d.actual_width)
                  /\ TruncatedRatio(last.rects_out[i].right, last.rects_in[i].right,
                                    d.original_width, d.actual_width)
                  /\ TruncatedRatio(last.rects_out[i].top, last.rects_in[i].top,
                                    d.original_height, d.actual_height)
                  /\ TruncatedRatio(last.rects_out[i].bottom, last.rects_in[i].bottom,
                                    d.original_height, d.actual_height)

\* C13 witness: with original 1920x1080 and actual 3840x2160 the scissor
\* rectangle {-1,3,3455,1947} was rebound as {0,1,1727,973}
C13_Witness ==
    /\ OnRecord("bind_scissor_rects")
    /\ swapchain_data_[last.sc].original_width = 1920
    /\ swapchain_data_[last.sc].actual_width = 3840
    /\ last.rebind
    /\ last.rects_in[1] = [left |-> 0 - 1, top |-> 3, right |-> 3455, bottom |-> 1947]
    /\ last.rects_out[1] = [left |-> 0, top |-> 1, right |-> 1727, bottom |-> 973]

\* a record whose last initialize_swapchain failed: it holds no proxy texture
FailedRecord(data) == data.proxy_textures = <<>>

\* C14 (as claimed): after initialize_swapchain failed for a swapchain, no
\* bind_render_targets, bind_viewports or bind_scissor_rects on its device
\* is rewritten or reissued on account of that swapchain's record.
C14_NoOverrideAfterFailure ==
    (/\ last.op \in {"bind_render_targets", "bind_viewports", "bind_scissor_rects"}
     /\ last.sc # NullHandle
     /\ last.sc \in DOMAIN swapchain_data_
     /\ FailedRecord(swapchain_data_[last.sc]))
    => ~last.rebind

\* C15 (as claimed): an init_swapchain that finds no pending entry for the
\* window (the request was not rewritten) and no record for the swapchain
\* creates no record and no proxy resource.
C15_RecordOnlyAfterRewrite ==
    [][(/\ last'.op = "init_swapchain"
        /\ last'.hwnd # NullHandle
        /\ HwndOf(last'.sc) \notin DOMAIN pending_swapchains_
        /\ last'.sc \notin DOMAIN swapchain_data_)
       => /\ last'.sc \notin DOMAIN swapchain_data_'
          /\ live' = live]_vars

\* C17: every install() increments the instance counter, every uninstall()
\* decrements it but never below zero, hooks become installed only by an
\* install() made in Borderless mode, installed hooks are removed exactly by
\* the uninstall() that brings the counter to zero, and installed hooks imply
\* a counter of at least one.
C17_InstanceCounting ==
    /\ [](hooks_installed_ => addon_instance_count_ >= 1)
    /\ [][/\ last'.op = "install" => addon_instance_count_' = addon_instance_count_ + 1
          /\ last'.op = "uninstall" =>
                 /\ addon_instance_count_' >= 0
                 /\ addon_instance_count_' =
                        IF addon_instance_count_ = 0 THEN 0 ELSE addon_instance_count_ - 1
          /\ (~hooks_installed_ /\ hooks_installed_') =>
                 (last'.op = "install" /\ config.fullscreen_mode_ = "Borderless")
          /\ (hooks_installed_ /\ ~hooks_installed_') <=>
                 (hooks_installed_ /\ last'.op = "uninstall" /\ addon_instance_count_' = 0)
          /\ (hooks_installed_ /\ ~hooks_installed_') => hook_handles' = {}]_vars

\* a second instance's install() found the hooks installed and counted itself
C17_Witness ==
    last.op = "install" /\ hooks_installed_ /\ addon_instance_count_ = 2

\* C18: after an install() in which some but not all hooks attached, the
\* uninstall() that brings the instance counter to zero leaves no hook handle
\* attached.
C18_PartialInstallReleased ==
    [][(/\ hook_handles # {} /\ hook_handles # HookNames
        /\ last'.op = "uninstall"
        /\ addon_instance_count_' = 0) => hook_handles' = {}]_vars

\* the order of teardown the detach is to follow
DetachOrder ==
    <<"unregister_overlay", "uninstall_hooks", "cleanup_all", "unregister_events",
      "unregister_addon">>

\* C19: on detach the overlay callback is unregistered, then Window Hooks are
\* uninstalled, then the tracked swapchain resources are released, then the
\* event callbacks are unregistered, then the addon is unregistered.
C19_DetachOrder ==
    /\ dll_pc \in {DetachOrder[i] : i \in DOMAIN DetachOrder} \cup {"detached"} =>
           /\ Len(dll_log) <= Len(DetachOrder)
           /\ dll_log = SubSeq(DetachOrder, 1, Len(dll_log))
    /\ dll_pc = "detached" =>
           /\ dll_log = DetachOrder
           /\ swapchain_data_ = EmptyMap /\ pending_swapchains_ = EmptyMap
           /\ host_registered = {}
    /\ (dll_pc \in {"unregister_events", "unregister_addon"} /\ "events" \notin host_registered) =>
           swapchain_data_ = EmptyMap

\* a detach of an addon loaded in Borderless mode ran to its end
C19_Witness ==
    dll_pc = "detached" /\ dll_log = DetachOrder /\ config.fullscreen_mode_ = "Borderless"

\* the store with none of the five keys
EmptyStore ==
    [ForceSwapchainResolution |-> <<>>, SwapchainScalingFilter |-> <<>>,
     FullscreenMode |-> <<>>, BlockFullscreenChanges |-> <<>>, TargetMonitor |-> <<>>]

\* the store and the configuration that hold the five defaults
DefaultStore ==
    [ForceSwapchainResolution |-> <<DefaultResolutionString>>, SwapchainScalingFilter |-> <<1>>,
     FullscreenMode |-> <<0>>, BlockFullscreenChanges |-> <<0>>, TargetMonitor |-> <<0>>]
DefaultConfig ==
    [force_width_ |-> 3840, force_height_ |-> 2160, fullscreen_mode_ |-> "Unchanged",
     block_fullscreen_changes_ |-> FALSE, scaling_filter_ |-> "min_mag_mip_linear",
     target_monitor_ |-> 0]

\* C20: load() against a store with none of the five keys writes the five
\* defaults to the store and holds them in memory; a load() against the
\* resulting store leaves the store and the configuration unchanged.
C20_DefaultsWrittenAndReadBack ==
    [][/\ (last'.op = "load" /\ config_store = EmptyStore) =>
              (config_store' = DefaultStore /\ config' = DefaultConfig)
       /\ (last'.op = "load" /\ config_store = DefaultStore /\ config = DefaultConfig) =>
              (config_store' = config_store /\ config' = config)]_vars

\* a load() returned with the defaults in the store and in memory
C20_Witness ==
    last.op = "load" /\ config_store = DefaultStore /\ config = DefaultConfig

\* resolution texts Config::load is to reject: a separator other than 'x', a
\* missing height, a zero height
MalformedResolutions ==
    {<<"3", "8", "4", "0", ",", "2", "1", "6", "0">>,
     <<"1", "2", "8", "0", "x">>,
     <<"1", "9", "2", "0", "x", "0">>}

\* C21: a load() that reads a present but malformed ForceSwapchainResolution
\* leaves the forced size at the compiled-in default 3840x2160.
C21_MalformedGivesDefault ==
    [][(/\ last'.op = "load"
        /\ config_store.ForceSwapchainResolution # <<>>
        /\ config_store.ForceSwapchainResolution[1] \in MalformedResolutions) =>
           (config'.force_width_ = 3840 /\ config'.force_height_ = 2160)]_vars

\* C22: after every load() that reads ForceSwapchainResolution=0x0, the first
\* and any later one, both forced dimensions are 0 and override is disabled.
C22_ZeroDisables ==
    [][(last'.op = "load" /\ config_store.ForceSwapchainResolution = <<<<"0", "x", "0">>>>) =>
           (config'.force_width_ = 0 /\ config'.force_height_ = 0)]_vars

\* C23: when load() returns, the store holds the default for every key that
\* was missing, malformed or out of range.
C23_FailuresDurable ==
    [][last'.op = "load" =>
           /\ (\/ config_store.ForceSwapchainResolution = <<>>
               \/ config_store.ForceSwapchainResolution[1] \in MalformedResolutions) =>
                  config_store'.ForceSwapchainResolution = <<DefaultResolutionString>>
           /\ (\/ config_store.SwapchainScalingFilter = <<>>
               \/ config_store.SwapchainScalingFilter[1] \notin 0..2) =>
                  config_store'.SwapchainScalingFilter = <<1>>
           /\ (\/ config_store.FullscreenMode = <<>>
               \/ config_store.FullscreenMode[1] \notin 0..2) =>
                  config_store'.FullscreenMode = <<0>>
           /\ config_store.BlockFullscreenChanges = <<>> =>
                  config_store'.BlockFullscreenChanges = <<0>>
           /\ config_store.TargetMonitor = <<>> => config_store'.TargetMonitor = <<0>>]_vars

C25_LocksNeverNested ==
    \A th \in 1..MaxThreads :
        ~(mutex_owner["swapchain_mutex_"] = th /\ mutex_owner["pending_mutex_"] = th)

\* the record of the presented swapchain is active and has a proxy texture
\* for the current back-buffer index
PresentActive ==
    /\ last.op = "present"
    /\ last.sc \in DOMAIN swapchain_data_
    /\ swapchain_data_[last.sc].override_active
    /\ last.index < Len(swapchain_data_[last.sc].proxy_textures)

\* the calls of a present that composites: v is the ephemeral view
CompositingCalls(data, s, index, v) ==
    <<<<"create_resource_view", v, BackBuffer(s, index), "render_target">>,
      <<"barrier", data.proxy_textures[index + 1], "render_target", "shader_resource">>,
      <<"barrier", BackBuffer(s, index), "present", "render_target">>,
      <<"bind_pipeline", data.copy_pipeline, 0, 0>>,
      <<"push_descriptors", data.copy_sampler, 0, "sampler">>,
      <<"push_descriptors", data.proxy_srvs[index + 1], 1, "shader_resource_view">>,
      <<"bind_render_targets_and_depth_stencil", v, 1, 0>>,
      <<"bind_viewports", 0, data.actual_width, data.actual_height>>,
      <<"draw", 0, 3, 1>>,
      <<"barrier", data.proxy_textures[index + 1], "shader_resource", "render_target">>,
      <<"barrier", BackBuffer(s, index), "render_target", "present">>,
      <<"destroy_resource_view", v, 0, 0>>>>

\* the state a barrier log leaves resource r in, none if it has no barrier
RECURSIVE FinalState(_, _)
FinalState(log, r) ==
    IF log = <<>> THEN "none"
    ELSE IF log[Len(log)][1] = "barrier" /\ log[Len(log)][2] = r THEN log[Len(log)][4]
    ELSE FinalState(SubSeq(log, 1, Len(log) - 1), r)

C27_PresentOnlyWhenActive ==
    [][(/\ last'.op = "present"
        /\ ~(/\ last'.sc \in DOMAIN swapchain_data_
             /\ swapchain_data_[last'.sc].override_active
             /\ last'.index < Len(swapchain_data_[last'.sc].proxy_textures))) =>
           /\ last'.log = <<>>
           /\ UNCHANGED <<config, pending_swapchains_, swapchain_data_, live>>]_vars

\* a present on a swapchain without a record, while another swapchain of the
\* device has an active record with proxies, recorded nothing
C27_Witness ==
    /\ last.op = "present" /\ last.sc \notin DOMAIN swapchain_data_
    /\ last.cmd_ok /\ last.rtv_ok /\ last.log = <<>>
    /\ \E k \in DOMAIN swapchain_data_ :
           swapchain_data_[k].override_active /\ swapchain_data_[k].proxy_textures # <<>>

\* C28: whenever no operation is in progress, the vectors proxy_textures,
\* proxy_rtvs, proxy_srvs and actual_back_buffers of each tracked record are
\* all empty or all as long as the swapchain has back buffers.
C28_VectorsAligned ==
    \A s \in DOMAIN swapchain_data_ :
        \/ /\ swapchain_data_[s].proxy_textures = <<>>
           /\ swapchain_data_[s].proxy_rtvs = <<>>
           /\ swapchain_data_[s].proxy_srvs = <<>>
           /\ swapchain_data_[s].actual_back_buffers = <<>>
        \/ /\ Len(swapchain_data_[s].proxy_textures) = BackBufferCount(s)
           /\ Len(swapchain_data_[s].proxy_rtvs) = BackBufferCount(s)
           /\ Len(swapchain_data_[s].proxy_srvs) = BackBufferCount(s)
           /\ Len(swapchain_data_[s].actual_back_buffers) = BackBufferCount(s)

\* one record is filled for two back buffers while another, whose
\* initialization failed, is empty
C28_Witness ==
    \E s, k \in DOMAIN swapchain_data_ :
        /\ Len(swapchain_data_[s].proxy_srvs) = 2
        /\ swapchain_data_[k].proxy_textures = <<>>
        /\ last.op = "init_swapchain" /\ last.sc = k

\* C29: a rewritten create_swapchain leaves exactly one pending entry for its
\* window, holding the size of this request whatever was stored before; an
\* initialize_swapchain consumes the entry of its window, so that none is
\* left for a second retrieval, which then finds nothing.
C29_PendingPerWindow ==
    [][/\ (/\ last'.op = "create_swapchain"
           /\ is_override_enabled(config)
           /\ SizeOf(last'.desc_in) # ForcedSize(config)
           /\ last'.hwnd # NullHandle) =>
              /\ DOMAIN pending_swapchains_' = DOMAIN pending_swapchains_ \cup {last'.hwnd}
              /\ pending_swapchains_'[last'.hwnd] =
                     [original_width |-> last'.desc_in.width,
                      original_height |-> last'.desc_in.height]
       /\ Initialized(last') =>
              /\ last'.hwnd \notin DOMAIN pending_swapchains_'
              /\ last'.sc \in DOMAIN swapchain_data_'
              /\ last'.hwnd \in DOMAIN pending_swapchains_ =>
                     /\ swapchain_data_'[last'.sc].original_width =
                            pending_swapchains_[last'.hwnd].original_width
                     /\ swapchain_data_'[last'.sc].original_height =
                            pending_swapchains_[last'.hwnd].original_height
              /\ last'.hwnd \notin DOMAIN pending_swapchains_ =>
                     /\ pending_swapchains_' = pending_swapchains_
                     /\ swapchain_data_'[last'.sc].original_width = FallbackWidth
                     /\ swapchain_data_'[last'.sc].original_height = FallbackHeight]_vars

\* an initialization consumed the entry a second request for the window left
C29_Witness ==
    /\ Initialized(last) /\ last.sc \in DOMAIN swapchain_data_
    /\ swapchain_data_[last.sc].original_width = FallbackWidth
    /\ swapchain_data_[last.sc].original_height = DefaultForceHeight
    /\ last.hwnd \notin DOMAIN pending_swapchains_

\* C30: the original size of a record is the size the application asked for
\* in its latest create_swapchain for the record's window, after the first
\* initialization and after every re-initialization on resize.
C30_OriginalIsRequested ==
    (/\ Initialized(last)
     /\ last.sc \in DOMAIN swapchain_data_
     /\ last.hwnd \in DOMAIN requested) =>
        /\ swapchain_data_[last.sc].original_width = requested[last.hwnd][1]
        /\ swapchain_data_[last.sc].original_height = requested[last.hwnd][2]

\* C31: an init_swapchain event issues the native enter-fullscreen request
\* exactly once when it is not a resize, the mode is Exclusive and the device
\* uses a d3d10, d3d11 or d3d12 back end, and never otherwise.
C31_FullscreenRequest ==
    last.op = "init_swapchain" =>
        Cardinality({i \in DOMAIN last.log : last.log[i][1] = "SetFullscreenState"}) =
            IF ~last.flag /\ is_exclusive_fullscreen_enabled(config) /\ IsDxgiApi(last.api)
            THEN 1 ELSE 0

\* a thread that is inside an entry point and is not waiting: its next step
\* gives a mutex up, or takes one that is free
CanStep(th) ==
    /\ thread_script[th] # <<>>
    /\ \/ Head(thread_script[th])[1] = "unlock"
       \/ mutex_owner[Head(thread_script[th])[2]] = 0

\* C38: the two mutexes cannot deadlock.  A thread takes swapchain_mutex_
\* only while it holds neither mutex and pending_mutex_ only while it does
\* not hold pending_mutex_, so a thread holding both took swapchain_mutex_
\* first; no thread waits for a mutex it holds; and whenever a thread is
\* inside an entry point some thread inside one can take its next step, so
\* every handler runs to the end of its finite sequence.
C38_NoDeadlock ==
    /\ [](\A th \in 1..MaxThreads :
            /\ thread_script[th] # <<>> =>
                   /\ \E o \in 1..MaxThreads : CanStep(o)
                   /\ Head(thread_script[th])[1] = "lock" =>
                          mutex_owner[Head(thread_script[th])[2]] # th
            /\ (thread_script[th] = <<>>) =>
                   \A m \in DOMAIN mutex_owner : mutex_owner[m] # th)
    /\ [][\A th \in 1..MaxThreads :
            /\ (mutex_owner'["swapchain_mutex_"] = th
                /\ mutex_owner["swapchain_mutex_"] # th) =>
                   mutex_owner["pending_mutex_"] # th
            /\ (mutex_owner'["swapchain_mutex_"] # th
                /\ mutex_owner["swapchain_mutex_"] = th) =>
                   mutex_owner["pending_mutex_"] # th]_vars

\* one thread holds both mutexes while another waits for swapchain_mutex_
C38_Witness ==
    \E th, o \in 1..MaxThreads :
        /\ mutex_owner["swapchain_mutex_"] = th
        /\ mutex_owner["pending_mutex_"] = th
        /\ thread_script[o] # <<>>
        /\ Head(thread_script[o]) = <<"lock", "swapchain_mutex_">>

\* C39: every index used to read a vector of a record is in range.  In
\* handle_bind_render_targets the result of find_proxy_index, for each view
\* bound, is below the size of proxy_rtvs of the record found; in
\* handle_present an index that passed the comparison with the size of
\* proxy_textures is below the size of proxy_srvs, whatever earlier
\* initializations of the record failed.
C39_IndexesInRange ==
    /\ (last.op = "bind_render_targets" /\ last.sc # NullHandle) =>
           \A i \in DOMAIN last.rtvs_in :
               find_proxy_index(swapchain_data_[last.sc], ResourceFromView(last.rtvs_in[i]))
                   < Len(swapchain_data_[last.sc].proxy_rtvs)
    /\ (/\ last.op = "present"
        /\ last.sc \in DOMAIN swapchain_data_
        /\ swapchain_data_[last.sc].override_active
        /\ last.index < Len(swapchain_data_[last.sc].proxy_textures)) =>
           last.index < Len(swapchain_data_[last.sc].proxy_srvs)

\* the last back buffer of a record is presented and composited while the
\* record of another swapchain is the empty one a failed initialization left
C39_Witness ==
    /\ last.op = "present" /\ last.index = 1 /\ last.log # <<>>
    /\ \E k \in DOMAIN swapchain_data_ :
           /\ k # last.sc
           /\ swapchain_data_[k].override_active
           /\ swapchain_data_[k].proxy_textures = <<>>

\* the destroy calls of a log, made in its order on a device holding the
\* objects liveSet, each release an object that exists at that moment
RECURSIVE DestroysLive(_, _)
DestroysLive(liveSet, log) ==
    IF log = <<>> THEN TRUE
    ELSE IF Head(log)[1] \in DestroyFns
    THEN Head(log)[2] \in liveSet /\ DestroysLive(liveSet \ {Head(log)[2]}, Tail(log))
    ELSE IF Head(log)[1] \in CreateFns
    THEN DestroysLive(liveSet \cup ({Head(log)[2]} \ {NullHandle}), Tail(log))
    ELSE DestroysLive(liveSet, Tail(log))

\* c is what cleanup() makes of a record on a device holding liveSet: the
\* record is empty, every object it released existed, and a second cleanup()
\* makes no device call
CleanedOnce(c, liveSet) ==
    /\ DestroysLive(liveSet, c.ctx.log)
    /\ HandlesOf(c.data) = {}
    /\ c.data.proxy_textures = <<>> /\ c.data.proxy_rtvs = <<>>
    /\ c.data.proxy_srvs = <<>> /\ c.data.actual_back_buffers = <<>>
    /\ cleanup(c.data, StartCtx(c.ctx.live)).ctx.log = <<>>

\* C36: over init, resize, failed init, destroy and cleanup_all no GPU object
\* is destroyed twice (every destroy call releases an object that exists when
\* it is made, and no object is held by two records), no record refers to an
\* object that was destroyed, cleanup() leaves a record with empty vectors and
\* zero pipeline, layout and sampler handles, and a cleanup() of a cleaned
\* record makes no device call.
C36_DestroyedOnce ==
    [][last'.op \in {"init_swapchain", "destroy_swapchain", "cleanup_all"} =>
          /\ DestroysLive(live, last'.log)
          /\ AllRecordHandles(swapchain_data_') \subseteq live'
          /\ \A s, k \in DOMAIN swapchain_data_' :
                 s # k => HandlesOf(swapchain_data_'[s]) \cap HandlesOf(swapchain_data_'[k]) = {}
          /\ \A s \in DOMAIN swapchain_data_' :
                 CleanedOnce(cleanup(swapchain_data_'[s], StartCtx(live')), live')]_vars

\* cleanup_all released every object of a completely filled record, and no
\* object is left
C36_Witness ==
    /\ last.op = "cleanup_all"
    /\ Cardinality(DestroyedIn(last.log)) = 3 * MaxBackBuffers + 3
    /\ live = {}

\* C37: when the detach has completed the swapchain table and the pending
\* table are empty and no object the addon created is live, whatever
\* callbacks the host ran on other threads during the detach.
C37_DetachedIsEmpty ==
    dll_pc = "detached" =>
        /\ swapchain_data_ = EmptyMap
        /\ pending_swapchains_ = EmptyMap
        /\ live = {}

\* C35: a thread in the overlay callback holds swapchain_mutex_ exactly while
\* it copies the records (never pending_mutex_, and no mutex while it draws),
\* the copy it leaves the lock with has one row per record of the table, and
\* no step of the callback changes the configuration, the swapchain table, a
\* record, the pending table or a device object.
C35_OverlayReadOnly ==
    /\ [](\A th \in 1..MaxThreads :
            /\ mutex_owner["pending_mutex_"] # th
            /\ mutex_owner["swapchain_mutex_"] = th <=>
                   /\ thread_script[th] # <<>>
                   /\ Head(thread_script[th])[1] \in {"copy", "unlock"}
            /\ (thread_script[th] # <<>> /\ Head(thread_script[th])[1] = "unlock") =>
                   \A i \in DOMAIN thread_script[th] :
                       thread_script[th][i][1] = "draw" =>
                           {thread_script[th][i][2][j][1] :
                                j \in DOMAIN thread_script[th][i][2]} = DOMAIN swapchain_data_)
    /\ [][(thread_script' # thread_script) =>
              UNCHANGED <<config, swapchain_data_, pending_swapchains_, live>>]_vars

\* the callback drew two records from its copy after one of them was
\* destroyed: the drawing did not keep the handlers out
C35_Witness ==
    /\ last.op = "render_overlay"
    /\ Len(last.log) = 2
    /\ Cardinality(DOMAIN swapchain_data_) < 2

\* C32: the values get_next_sequence hands out, in the order of its
\* increments, are 1, 2, 3, ... without duplicate or gap, the counter is the
\* last of them, and format_event_header leaves the counter as it found it.
C32_SequenceNumbers ==
    /\ [](/\ returned = [i \in 1..Len(returned) |-> i]
          /\ sequence_counter_ = Len(returned))
    /\ [][last'.op = "format_event_header" /\ last.op # "format_event_header" =>
              sequence_counter_' = sequence_counter_ /\ returned' = returned]_vars

\* two numbers were handed out and a thread is inside get_next_sequence while
\* another waits for the mutex
C32_Witness ==
    /\ Len(returned) >= 2
    /\ \E th, o \in 1..MaxThreads :
           /\ mutex_owner["sequence_mutex_"] = th
           /\ thread_script[o] # <<>>
           /\ Head(thread_script[o]) = <<"lock", "sequence_mutex_">>

\* C33: a hook called in debug mode calls the original function with the
\* arguments of its caller and returns what the original returned, in every
\* fullscreen mode.
C33_DebugForwardsUnchanged ==
    last.op \in HookNames /\ last.flag =>
        /\ last.forwarded
        /\ last.args_out = last.args_in
        /\ last.ret = last.orig

\* C34 as stated: SetWindowPos in Borderless mode passes a call with both
\* SWP_NOSIZE and SWP_NOMOVE on as it is, and otherwise, when the monitor
\* rectangle resolves, passes the rectangle of the monitor with the two flags
\* cleared and the other flags kept; in another mode it passes the call on as
\* it is.
C34_PositionHook ==
    last.op = "SetWindowPos" =>
        /\ last.forwarded /\ last.ret = last.orig
        /\ IF config.fullscreen_mode_ # "Borderless"
               \/ {"SWP_NOSIZE", "SWP_NOMOVE"} \subseteq last.args_in.uFlags
           THEN last.args_out = last.args_in
           ELSE last.hit =>
                    last.args_out =
                        [X |-> MonitorRect(last.monitor).left,
                         Y |-> MonitorRect(last.monitor).top,
                         cx |-> MonitorRect(last.monitor).right
                                    - MonitorRect(last.monitor).left,
                         cy |-> MonitorRect(last.monitor).bottom
                                    - MonitorRect(last.monitor).top,
                         uFlags |-> last.args_in.uFlags \ {"SWP_NOMOVE", "SWP_NOSIZE"}]

\* C34: with debug mode off, SetWindowPos behaves as C34_PositionHook states;
\* with debug mode on it passes every call on as it is.
C34_PositionHookNoDebug ==
    last.op = "SetWindowPos" =>
        /\ last.forwarded /\ last.ret = last.orig
        /\ IF last.flag
               \/ config.fullscreen_mode_ # "Borderless"
               \/ {"SWP_NOSIZE", "SWP_NOMOVE"} \subseteq last.args_in.uFlags
           THEN last.args_out = last.args_in
           ELSE last.hit =>
                    /\ last.args_out.X = MonitorRect(last.monitor).left
                    /\ last.args_out.Y = MonitorRect(last.monitor).top
                    /\ last.args_out.cx = MonitorRect(last.monitor).right
                                              - MonitorRect(last.monitor).left
                    /\ last.args_out.cy = MonitorRect(last.monitor).bottom
                                              - MonitorRect(last.monitor).top
                    /\ last.args_out.uFlags
                           = last.args_in.uFlags \ {"SWP_NOMOVE", "SWP_NOSIZE"}

\* a call with SWP_NOMOVE and SWP_NOZORDER, debug mode off, in Borderless
\* mode was moved to the second monitor with SWP_NOMOVE cleared
C34_Witness ==
    /\ last.op = "SetWindowPos" /\ ~last.flag
    /\ config.fullscreen_mode_ = "Borderless"
    /\ last.args_in.uFlags = {"SWP_NOMOVE", "SWP_NOZORDER"}
    /\ last.hit /\ last.monitor = 2
    /\ last.args_out.X = 1920
    /\ last.args_out.uFlags = {"SWP_NOZORDER"}
====
